---- MODULE Spec2Model ----
(***************************************************************************)
(* Apple Containers extension: the resource cache (tree data providers),   *)
(* its auto-refresh scheduling, and the CLI wrapper's list path.           *)
(*                                                                         *)
(* The four providers (containers, images, volumes, networks) share no     *)
(* mutable state with each other; the only state they share is the CLI     *)
(* wrapper's configuration.  A behaviour of this module follows ONE        *)
(* provider instance, of kind `kind`, together with the CLI wrapper, the   *)
(* JavaScript timers it owns and the list subprocesses it has in flight.   *)
(* Init ranges over the four kinds, so every property is checked for each. *)
(***************************************************************************)
EXTENDS Integers, Sequences, FiniteSets, TLC

----------------------------------------------------------------------------
(* Bounds of the model *)

MaxEntities == 2      \* distinct resources the engine may list
MaxInFlight == 2      \* list subprocesses in flight at once
MaxTimeouts == 1      \* delayed refreshes (pull / build) scheduled at once
MaxExitCode == 2      \* largest non-zero exit status of the subprocess
MaxNameLen == 3       \* characters of a name typed into an input box
MaxRefLen == 5        \* words and separators of an image reference
MaxShift == 4         \* a byte count is a mantissa times Base^0..Base^MaxShift
MaxEntries == 2       \* entries of a list-typed or map-typed request field
MaxCalls == 3         \* subprocess invocations followed one by one

(* Program constants *)

DefaultRefreshInterval == 5000   \* config.get('refreshInterval', 5000)
DefaultConfirmBeforeDelete == TRUE  \* config.get('confirmBeforeDelete', true)
Base == 1024                     \* Math.log(1024), Math.pow(1024, i)
ExecTimeout == 60000             \* execFileAsync(..., { timeout: 60000 })

----------------------------------------------------------------------------
(* Values *)

Kinds == {"Container", "Image", "Volume", "Network"}

\* appleContainers.refreshInterval as the settings collaborator may hold it
PollIntervals == {0, DefaultRefreshInterval}

\* appleContainers.containerPath: the default, and a path set by the user
DefaultContainerPath == "container"
ContainerPaths == {DefaultContainerPath, "/opt/bin/container"}

\* The settings the model follows: appleContainers.refreshInterval,
\* appleContainers.confirmBeforeDelete and appleContainers.containerPath,
\* the last one at its default where the binary path plays no part
Settings ==
    [refreshInterval : PollIntervals, confirmBeforeDelete : BOOLEAN,
     containerPath : {DefaultContainerPath}]

\* Resource identities (container id, image digest, volume name, network id).
\* Their numeric order stands for the order of localeCompare on the names.
Entities == 1..MaxEntities

\* A record of a JSON list response: a well-formed object, named by the
\* identity it carries, or 0 for a record that is not an object (JSON null).
RawRecords == Entities \cup {0}

IsObject(raw) == raw \in Entities

RECURSIVE Perms(_)
\* every duplicate-free sequence over the set S that lists all of S
Perms(S) ==
    IF S = {} THEN {<<>>}
    ELSE UNION {{<<x>> \o p : p \in Perms(S \ {x})} : x \in S}

\* The arrays a list response may carry: any duplicate-free listing of some
\* of the resources, or a single record that is not an object.
RawLists == (UNION {Perms(S) : S \in SUBSET Entities}) \cup {<<0>>}

\* What the subprocess wrote on stdout when it exited cleanly.
\*   blank   : empty or whitespace only
\*   garbage : not JSON
\*   scalar  : valid JSON that is not an array (object, null, number)
\*   array   : a JSON array of records
StdoutDocs ==
    {[form |-> f, items |-> <<>>] : f \in {"blank", "garbage", "scalar"}}
    \cup {[form |-> "array", items |-> l] : l \in RawLists}

NoStdout == [form |-> "blank", items |-> <<>>]

\* JavaScript values as error.code and exitCode hold them
Num(n) == [t |-> "number", n |-> n, s |-> ""]
Str(s) == [t |-> "string", n |-> 0, s |-> s]
Null   == [t |-> "null", n |-> 0, s |-> ""]

\* JavaScript truthiness, and the operator a || b
Truthy(v) == (v.t = "number" /\ v.n # 0) \/ (v.t = "string" /\ v.s # "")
Or(a, b) == IF Truthy(a) THEN a ELSE b

\* What the subprocess wrote on stderr: nothing, or some text
StderrTexts == {"", "stderr text"}

ExitCodes == 1..MaxExitCode

\* execFileAsync resolves: the subprocess exited with status 0
CleanExits ==
    {[status |-> "exited", cause |-> "exit0", stdout |-> d, stderr |-> e,
      code |-> Num(0), message |-> ""] : d \in StdoutDocs, e \in StderrTexts}

\* execFileAsync rejects with an error that carries message, code, stderr:
\*   nonzero   : the subprocess exited with a status other than 0; code is
\*               that status
\*   spawn     : the binary could not be started; code is the name of the
\*               system error
\*   timeout   : the 60000 ms elapsed and the subprocess was killed; it has
\*               no exit status, code is null
\*   maxBuffer : the output went over the 10 MiB of maxBuffer; code is the
\*               name of the runtime's error
Rejections ==
    {[status |-> "failed", cause |-> "nonzero", stdout |-> NoStdout,
      stderr |-> e, code |-> Num(c), message |-> "Command failed"] :
        e \in StderrTexts, c \in ExitCodes}
    \cup {[status |-> "failed", cause |-> "spawn", stdout |-> NoStdout,
           stderr |-> "", code |-> Str("ENOENT"),
           message |-> "spawn container ENOENT"]}
    \cup {[status |-> "failed", cause |-> "timeout", stdout |-> NoStdout,
           stderr |-> e, code |-> Null, message |-> "Command failed"] :
             e \in StderrTexts}
    \cup {[status |-> "failed", cause |-> "maxBuffer", stdout |-> NoStdout,
           stderr |-> e, code |-> Str("ERR_CHILD_PROCESS_STDIO_MAXBUFFER"),
           message |-> "stdout maxBuffer length exceeded"] :
             e \in StderrTexts}

\* Every way a subprocess run by execute can end
GatewayProcs == CleanExits \cup Rejections

\* The ways a list subprocess ends that the providers can tell apart: it
\* fails, or it exits cleanly with some stdout.
ProcOutcomes ==
    {p \in Rejections : p.cause = "nonzero" /\ p.code = Num(1) /\ p.stderr # ""}
    \cup {p \in CleanExits : p.stderr = ""}

Range(s) == {s[i] : i \in 1..Len(s)}

\* The records a list response lists: those of its array, none when stdout
\* holds no array.
Listed(doc) == IF doc.form = "array" THEN doc.items ELSE <<>>

----------------------------------------------------------------------------
VARIABLES
    kind,            \* the kind of the provider followed
    settings,        \* the host's settings store (external collaborator)
    config,          \* ContainerCli._config
    configListening, \* ContainerCli._configChangeDisposable is subscribed
    snapshot,        \* _containers / _images / _volumes / _networks
    initialLoadDone, \* ContainersProvider._initialLoadDone
    refreshTimer,    \* _refreshTimer: 0 is undefined, else the timer's id
    liveTimers,      \* interval timers alive in the runtime: [id, period]
    emitterDisposed, \* _onDidChangeTreeData has been disposed
    pending,         \* list subprocesses in flight, in the order started
    timeouts,        \* setTimeout callbacks scheduled by pull / build
    disposed,        \* provider.dispose() has been called
    intervalAtConstruction, \* config.refreshInterval the constructor read
    source,          \* the resources listed by the last response installed
    populated,       \* a refresh has installed the listing of a response
    last,            \* what the step into this state did (history)
    gw,              \* one call of ContainerCli.execute: input and envelope
    cmd,             \* the run of a command handler (restart, delete)
    act,             \* the run of activate()
    fn,              \* one application of a pure function: input, output
    form,            \* the run of a create command (volume, network)
    calls            \* the subprocess invocations followed one by one

providerVars ==
        <<calls, kind, settings, config, configListening, snapshot, initialLoadDone,
          refreshTimer, liveTimers, emitterDisposed, pending, timeouts,
          disposed, intervalAtConstruction, source, populated, last>>

\* The variables the providers' operations leave alone
outside == <<gw, cmd, act, fn, form>>

vars == <<providerVars, outside>>

----------------------------------------------------------------------------
(* The CLI wrapper *)

\* ContainerCli.loadConfig: a fresh ExtensionConfig read from the settings
loadConfig(s) ==
    [containerPath |-> s.containerPath,
     refreshInterval |-> s.refreshInterval,
     confirmBeforeDelete |-> s.confirmBeforeDelete]

\* A dispose() of the CLI wrapper that leaves the listener subscribed
cliDisposeKeepsListener(listening) == listening

\* ContainerCli.dispose: _configChangeDisposable.dispose(); tells whether
\* the configuration listener is still subscribed afterwards
cliDispose(listening) == FALSE

\* execute, up to its await: cliPath is read from the configuration held
\* and handed to execFileAsync with the arguments.  `wanted` and `overtaken`
\* are history: the path the settings held when the call started, and
\* whether the settings changed while the call was in flight.
startExecute(cfg, origin) ==
    [origin |-> origin, cliPath |-> cfg.containerPath, state |-> "running",
     hung |-> FALSE, cause |-> "none", ran |-> "", wanted |-> "",
     overtaken |-> FALSE]

\* The options execute passes to execFileAsync, as far as they bound the
\* run of the subprocess
execOptions == [timeout |-> ExecTimeout]

\* An execFile that arms no kill timer
killTimerNever(options) == FALSE

\* child_process.execFile arms a timer that kills the subprocess when
\* options.timeout is greater than 0
killTimerArmed(options) == options.timeout > 0

\* execute, after its await: the subprocess that ran is the one spawned
\* from cliPath
endExecute(call, cause) ==
    [call EXCEPT !.state = "settled", !.cause = cause, !.ran = call.cliPath]

ParseError == "Failed to parse JSON output"

\* JSON.parse(stdout): throws a SyntaxError on text that is not JSON, the
\* empty text included
jsonParseLenient(doc) == [threw |-> FALSE, value |-> doc]

jsonParse(doc) ==
    [threw |-> doc.form \in {"blank", "garbage"}, value |-> doc]

\* The envelopes execute returns.  `decoded` tells the value of JSON.parse
\* from the raw stdout text; `raised` is an exception that leaves execute.
okWithError(data, decoded) ==
    [raised |-> FALSE, success |-> TRUE, hasData |-> TRUE, data |-> data,
     decoded |-> decoded, hasError |-> TRUE, error |-> "", exitCode |-> Num(0)]

ok(data, decoded) ==
    [raised |-> FALSE, success |-> TRUE, hasData |-> TRUE, data |-> data,
     decoded |-> decoded, hasError |-> FALSE, error |-> "", exitCode |-> Num(0)]

parseFailure ==
    [raised |-> FALSE, success |-> FALSE, hasData |-> FALSE, data |-> NoStdout,
     decoded |-> FALSE, hasError |-> TRUE, error |-> ParseError,
     exitCode |-> Num(0)]

\* The outer catch: { success: false, error: err.stderr || err.message,
\* exitCode: err.code || 1 }
processFailure(err) ==
    [raised |-> FALSE, success |-> FALSE, hasData |-> FALSE, data |-> NoStdout,
     decoded |-> FALSE, hasError |-> TRUE,
     error |-> IF err.stderr # "" THEN err.stderr ELSE err.message,
     exitCode |-> Or(err.code, Num(1))]

\* The rejection of execFileAsync leaving execute
uncaught(err) ==
    [raised |-> TRUE, success |-> FALSE, hasData |-> FALSE, data |-> NoStdout,
     decoded |-> FALSE, hasError |-> FALSE, error |-> "", exitCode |-> Null]

\* An execute whose try has no catch
executeNoCatch(proc, parseJson) ==
    IF proc.status = "failed"
    THEN uncaught(proc)
    ELSE IF parseJson /\ proc.stdout.form # "blank"
         THEN IF jsonParse(proc.stdout).threw
              THEN uncaught(proc)
              ELSE ok(jsonParse(proc.stdout).value, TRUE)
         ELSE ok(proc.stdout, FALSE)

\* ContainerCli.execute(args, parseJson) over the way the subprocess ended
execute(proc, parseJson) ==
    IF proc.status = "failed"
    THEN processFailure(proc)
    ELSE IF parseJson /\ proc.stdout.form # "blank"
         THEN IF jsonParse(proc.stdout).threw
              THEN parseFailure
              ELSE ok(jsonParse(proc.stdout).value, TRUE)
         ELSE ok(proc.stdout, FALSE)

\* `result.success && result.data` followed by Array.isArray(result.data):
\* the raw records the list methods go on to map, <<>> in every other case
rawData(result) ==
    IF result.success /\ result.data.form = "array"
    THEN result.data.items
    ELSE <<>>

\* listContainers / listImages map every record through parseRawContainer /
\* parseRawImage, which read a property of the record and so throw a
\* TypeError on a record that is not an object; listVolumes / listNetworks
\* return the decoded array as it is.
listResources(k, result) ==
    LET raw == rawData(result) IN
    IF k \in {"Container", "Image"} /\ \E i \in 1..Len(raw) : ~IsObject(raw[i])
    THEN [threw |-> TRUE, list |-> <<>>]
    ELSE [threw |-> FALSE, list |-> raw]

----------------------------------------------------------------------------
(* The providers *)

\* A startAutoRefresh that tests `interval >= 0`
startAutoRefreshAlways(interval) ==
    IF interval >= 0
    THEN [handle |-> 1, timers |-> {[id |-> 1, period |-> interval]}]
    ELSE [handle |-> 0, timers |-> {}]

\* startAutoRefresh: the handle stored and the timers created
startAutoRefresh(interval) ==
    IF interval > 0
    THEN [handle |-> 1, timers |-> {[id |-> 1, period |-> interval]}]
    ELSE [handle |-> 0, timers |-> {}]

\* A stopAutoRefresh that forgets the handle without clearInterval
stopAutoRefreshForgetOnly(handle, timers) ==
    [handle |-> 0, timers |-> timers]

\* A stopAutoRefresh that calls clearInterval and keeps the handle
stopAutoRefreshKeepHandle(handle, timers) ==
    [handle |-> handle, timers |-> {t \in timers : t.id # handle}]

\* stopAutoRefresh: clearInterval on the stored handle, then forget it
stopAutoRefresh(handle, timers) ==
    IF handle # 0
    THEN [handle |-> 0, timers |-> {t \in timers : t.id # handle}]
    ELSE [handle |-> handle, timers |-> timers]

\* refresh(), up to its await: the list subprocess is launched
startRefresh(inflight, origin) == Append(inflight, [origin |-> origin])

\* A refresh that fires only when the listing differs from the one held
refreshResumeIfChanged(old, listed) ==
    [snapshot |-> listed, fired |-> (listed # old), seen |-> listed]

\* A refresh that merges by identity: new listing first, then the entries
\* held before that the listing does not name
refreshResumeMerge(old, listed) ==
    LET kept == SelectSeq(old, LAMBDA e : e \notin Range(listed)) IN
    [snapshot |-> listed \o kept, fired |-> TRUE, seen |-> listed \o kept]

\* A refresh that pushes the listing onto the array it holds
refreshResumeAppend(old, listed) ==
    [snapshot |-> old \o listed, fired |-> TRUE, seen |-> old \o listed]

\* refresh(), after its await: the field is assigned, then the emitter fires.
\* `seen` is the field's value at the moment fire() runs.
refreshResume(old, listed) ==
    [snapshot |-> listed, fired |-> TRUE, seen |-> listed]

\* An emitter whose fire() still calls the listeners after dispose()
fireReachesListenersAlways(fired, emitterGone) == fired

\* this._onDidChangeTreeData.fire(): the listeners are called unless the
\* emitter was disposed (dispose() drops them and fire() is then a no-op)
fireReachesListeners(fired, emitterGone) == fired /\ ~emitterGone

\* How the promise of refresh() settles.  refresh() returns Promise<void>:
\* it is fulfilled with no value once the field is assigned, whatever the
\* list method went through, and rejected when the list method threw.
refreshSettles(listed) ==
    IF listed.threw THEN "rejected" ELSE "fulfilled"

\* getChildren's test for loading before it answers
needsLoad(k, snap, loaded) ==
    IF k = "Container" THEN ~loaded ELSE Len(snap) = 0

\* getChildren's in-place Array.prototype.sort on the field (images, volumes,
\* networks; the containers provider does not sort).  The comparator reads a
\* property of both records, so a record that is not an object makes the
\* read throw and leaves the array as it was.
sortInPlace(k, snap) ==
    IF k = "Container" \/ \E i \in 1..Len(snap) : ~IsObject(snap[i])
    THEN snap
    ELSE SortSeq(snap, LAMBDA a, b : a < b)

----------------------------------------------------------------------------
(* One call of execute *)

NoResult == uncaught(CHOOSE p \in Rejections : TRUE)

\* A gateway that launches the subprocess a second time when it failed
launchesRetryOnFailure(proc) == IF proc.status = "failed" THEN 2 ELSE 1

\* The subprocesses one call of execute launches: execFileAsync is awaited
\* once, in straight-line code, whatever the subprocess does
launches(proc) == 1

\* The lines one call of execute appends to the output channel, by their
\* tag: the command, then the subprocess's stderr or the JSON error of a
\* clean exit, or the error of a failed one
outputLines(proc, parseJson) ==
    <<"[CMD]">>
    \o (IF proc.status = "failed"
        THEN <<"[ERROR]">>
        ELSE (IF proc.stderr # "" THEN <<"[STDERR]">> ELSE <<>>)
             \o (IF parseJson /\ proc.stdout.form # "blank"
                    /\ jsonParse(proc.stdout).threw
                 THEN <<"[JSON ERROR]">> ELSE <<>>))

\* No call of execute is followed
GwIdle ==
    [pc |-> "idle", parseJson |-> FALSE,
     proc |-> CHOOSE p \in Rejections : TRUE, result |-> NoResult,
     launched |-> 0, log |-> <<>>]

----------------------------------------------------------------------------
(* The command handlers *)

\* What a message shown to the user holds
NoMessage == [level |-> "none", text |-> ""]

\* No command handler is running and none has run
CmdIdle ==
    [pc |-> "idle", name |-> "none", confirmAtRun |-> FALSE,
     answer |-> "none", calls |-> <<>>, stopResult |-> NoResult,
     result |-> NoResult, shown |-> NoMessage]

\* The ways the subprocess of a command ends that its handler can tell
\* apart: it fails, with or without stderr, or it exits cleanly.
CommandProcs ==
    {p \in Rejections : p.cause = "nonzero" /\ p.code = Num(1)}
    \cup {p \in CleanExits : p.stdout = NoStdout /\ p.stderr = ""}

\* What the modal showWarningMessage(..., 'Delete') resolves to: the button,
\* or undefined when the dialog is cancelled or closed
ConfirmAnswers == {"Delete", "undefined"}

\* A delete handler that asks and goes on whatever the answer
confirmedAlways(answer) == TRUE

\* `if (confirm !== 'Delete') return`
confirmed(answer) == answer = "Delete"

\* `if (cli.config.confirmBeforeDelete)`
needsConfirm(cfg) == cfg.confirmBeforeDelete

\* A restart that starts the container whatever the stop returned
restartContinuesAlways(stopResult) == TRUE

\* `if (!stopResult.success) return stopResult`
restartContinues(stopResult) == stopResult.success

\* The commands whose handler invokes its subprocess at once for the item
\* selected: appleContainers.startContainer / stopContainer
DirectCommands(k) == IF k = "Container" THEN {"start", "stop"} ELSE {}

\* The commands whose handler first asks the user: runContainer (image,
\* name, options), pruneImages / pruneVolumes (the modal 'Prune'),
\* createVolume / createNetwork (the name and what follows it)
PromptedCommands(k) ==
    CASE k = "Container" -> {"run"}
      [] k = "Image"     -> {"prune"}
      [] k = "Volume"    -> {"create", "prune"}
      [] k = "Network"   -> {"create"}

\* How the questions of a handler end: cancelled; for run, with or without
\* the option Detached; for prune, 'Prune'; for create, all answered
PromptOutcomes(name) ==
    CASE name = "run"    -> {"cancelled", "detached", "terminal"}
      [] name = "prune"  -> {"cancelled", "confirmed"}
      [] name = "create" -> {"cancelled", "submitted"}

\* A handler that refreshes whatever the result of its subprocess
refreshAfterAlways(result) == TRUE

\* `if (result.success) { ...; await provider.refresh(); } else { ... }`
refreshAfter(result) == result.success

\* The message a handler shows for the result of its subprocess
report(result) ==
    IF result.success
    THEN [level |-> "info", text |-> ""]
    ELSE [level |-> "error", text |-> result.error]

----------------------------------------------------------------------------
(* Pure functions *)

\* No function is applied
FnIdle == [op |-> "none", done |-> FALSE, input |-> <<>>, output |-> <<>>]

(* parseRawContainer: the status *)

\* A text with its letters' case: the letters in lower case, and the
\* positions written in upper case
Text(chars, caps) == [chars |-> chars, caps |-> caps]

EmptyText == Text(<<>>, {})

\* The words the engine may report as a status, the last one a word the
\* switch does not know
StatusWords ==
    {<<"r", "u", "n", "n", "i", "n", "g">>,
     <<"s", "t", "o", "p", "p", "e", "d">>,
     <<"e", "x", "i", "t", "e", "d">>,
     <<"c", "r", "e", "a", "t", "e", "d">>,
     <<"p", "a", "u", "s", "e", "d">>,
     <<"d", "e", "a", "d">>,
     <<>>}

\* raw.status as the decoded JSON may hold it: absent, null, a boolean, a
\* number, an object, or a string in any mix of upper and lower case
RawStatuses ==
    {[t |-> "string", n |-> 0, text |-> Text(w, c)] :
        w \in StatusWords, c \in SUBSET (1..7)}
    \cup {[t |-> k, n |-> v, text |-> EmptyText] :
            k \in {"number", "boolean"}, v \in {0, 1}}
    \cup {[t |-> k, n |-> 0, text |-> EmptyText] :
            k \in {"undefined", "null", "object"}}

\* JavaScript truthiness of such a value
statusTruthy(v) ==
    CASE v.t = "string" -> v.text.chars # <<>>
      [] v.t \in {"number", "boolean"} -> v.n # 0
      [] v.t = "object" -> TRUE
      [] OTHER -> FALSE

\* String.prototype.toLowerCase
toLowerCase(text) == Text(text.chars, {})

\* The switch over the lowered status
statusOf(lowered) ==
    CASE lowered = Text(<<"r", "u", "n", "n", "i", "n", "g">>, {}) -> "Running"
      [] lowered = Text(<<"s", "t", "o", "p", "p", "e", "d">>, {}) -> "Stopped"
      [] lowered = Text(<<"e", "x", "i", "t", "e", "d">>, {}) -> "Stopped"
      [] lowered = Text(<<"c", "r", "e", "a", "t", "e", "d">>, {}) -> "Created"
      [] lowered = Text(<<"p", "a", "u", "s", "e", "d">>, {}) -> "Paused"
      [] OTHER -> "Unknown"

\* `(raw.status as string || '').toLowerCase()` and the switch: a truthy
\* value that is not a string has no toLowerCase, and the call throws
normalizeStatus(status) ==
    IF ~statusTruthy(status)
    THEN [threw |-> FALSE, status |-> statusOf(toLowerCase(EmptyText))]
    ELSE IF status.t = "string"
         THEN [threw |-> FALSE, status |-> statusOf(toLowerCase(status.text))]
         ELSE [threw |-> TRUE, status |-> "none"]

(* parseRawImage: the reference *)

\* An image reference is a sequence of words and of the separators the
\* parser looks for
RefWords == {"docker.io", "library", "nginx"}
RefAtoms == RefWords \cup {"/", ":"}

RECURSIVE RefTexts(_)
RefTexts(n) ==
    IF n = 0 THEN {<<>>}
    ELSE RefTexts(n - 1)
         \cup {Append(t, c) : t \in {u \in RefTexts(n - 1) : Len(u) = n - 1},
                              c \in RefAtoms}

\* The references of the documentation
NamedReferences ==
    {<<"nginx", ":", "latest">>,
     <<"docker.io", "/", "library", "/", "nginx", ":", "1.25">>,
     <<"myregistry.local", ":", "5000", "/", "app", ":", "v2">>,
     <<"myimage">>}

References == RefTexts(MaxRefLen) \cup NamedReferences

\* String.prototype.lastIndexOf, counted from 1: 0 when there is none
lastIndexOf(t, c) ==
    LET at == {i \in 1..Len(t) : t[i] = c} IN
    IF at = {} THEN 0 ELSE CHOOSE i \in at : \A j \in at : j <= i

\* String.prototype.startsWith
startsWith(t, prefix) ==
    Len(t) >= Len(prefix) /\ SubSeq(t, 1, Len(prefix)) = prefix

\* The prefixes parseRawImage strips
LibraryPrefix == <<"docker.io", "/", "library", "/">>
RegistryPrefix == <<"docker.io", "/">>

stripPrefix(repository) ==
    IF startsWith(repository, LibraryPrefix)
    THEN SubSeq(repository, Len(LibraryPrefix) + 1, Len(repository))
    ELSE IF startsWith(repository, RegistryPrefix)
         THEN SubSeq(repository, Len(RegistryPrefix) + 1, Len(repository))
         ELSE repository

\* A parser that splits at the first colon
parseReferenceFirstColon(reference) ==
    LET at == {i \in 1..Len(reference) : reference[i] = ":"}
        firstColon == IF at = {} THEN 0
                      ELSE CHOOSE i \in at : \A j \in at : i <= j
    IN
    IF firstColon > 0
    THEN [repository |-> stripPrefix(SubSeq(reference, 1, firstColon - 1)),
          tag |-> SubSeq(reference, firstColon + 1, Len(reference))]
    ELSE [repository |-> stripPrefix(reference), tag |-> <<"latest">>]

\* parseRawImage: repository and tag of the reference
parseReference(reference) ==
    LET lastColon == lastIndexOf(reference, ":")
        lastSlash == lastIndexOf(reference, "/")
    IN
    IF lastColon > lastSlash
    THEN [repository |-> stripPrefix(SubSeq(reference, 1, lastColon - 1)),
          tag |-> SubSeq(reference, lastColon + 1, Len(reference))]
    ELSE [repository |-> stripPrefix(reference), tag |-> <<"latest">>]

(* formatSize *)

Units == <<"B", "KiB", "MiB", "GiB", "TiB">>

\* Mantissas of the byte counts: 0, and counts below Base * Base on both
\* sides of a unit step and of a rounding step
Mantissas ==
    {0, 1, 5, 512, Base - 1, Base, Base + 1, Base + Base \div 4,
     Base + Base \div 2, 10 * Base, Base * Base - 1}

\* A byte count m * Base^e
ByteCounts == [m : Mantissas, e : 0..MaxShift]

\* formatSize(bytes) for bytes = m * Base^e with m < Base * Base:
\* i = floor(log(bytes) / log(1024)) is e, or e + 1 when m reaches Base;
\* toFixed(1) rounds bytes / 1024^i to tenths, a tie upwards; units[i] is
\* undefined past the end of the array.  The numeral is tenths / 10.
formatSize(bytes) ==
    IF bytes.m = 0
    THEN [plain |-> TRUE, tenths |-> 0, unit |-> "B"]
    ELSE LET carry == IF bytes.m >= Base THEN 1 ELSE 0
             i == bytes.e + carry
             scale == IF carry = 1 THEN Base ELSE 1
         IN
         [plain |-> FALSE,
          tenths |-> (20 * bytes.m + scale) \div (2 * scale),
          unit |-> IF i + 1 <= Len(Units) THEN Units[i + 1] ELSE "undefined"]

----------------------------------------------------------------------------
(* The create commands *)

\* Characters, one for each class the name pattern tells apart: a letter,
\* a digit, the three punctuation marks it admits, a blank, any other
Letters == {"a"}
Digits == {"7"}
Chars == Letters \cup Digits \cup {"_", ".", "-", " ", "/"}

RECURSIVE Texts(_)
\* The texts of at most n characters
Texts(n) ==
    IF n = 0 THEN {<<>>}
    ELSE Texts(n - 1)
         \cup {Append(t, c) : t \in {u \in Texts(n - 1) : Len(u) = n - 1},
                              c \in Chars}

\* What the user may type into the name box
TypedNames == Texts(MaxNameLen)

RECURSIVE trimStart(_)
trimStart(t) ==
    IF t # <<>> /\ Head(t) = " " THEN trimStart(Tail(t)) ELSE t

RECURSIVE trimEnd(_)
trimEnd(t) ==
    IF t # <<>> /\ t[Len(t)] = " "
    THEN trimEnd(SubSeq(t, 1, Len(t) - 1))
    ELSE t

\* String.prototype.trim
trim(t) == trimEnd(trimStart(t))

\* /^[a-zA-Z0-9][a-zA-Z0-9_.-]*$/.test(value)
namePattern(value) ==
    /\ Len(value) >= 1
    /\ value[1] \in Letters \cup Digits
    /\ \A i \in 2..Len(value) :
          value[i] \in Letters \cup Digits \cup {"_", ".", "-"}

\* A validateInput that only asks for a name that is not blank
validateInputRequiredOnly(value) ==
    IF value = <<>> \/ Len(trim(value)) = 0 THEN "required" ELSE "null"

\* validateInput of the name box: the message shown, "null" for none
validateInput(value) ==
    IF value = <<>> \/ Len(trim(value)) = 0
    THEN "required"
    ELSE IF ~namePattern(value) THEN "pattern" ELSE "null"

\* The answers to the optional subnet and gateway boxes: cancelled, left
\* empty, blank, or an address
AddressAnswers == {"undefined", "", " ", "172.20.0.0"}

\* `answer?.trim() || undefined`, "undefined" standing for undefined
trimOrUndefined(answer) ==
    IF answer \in {"undefined", "", " "} THEN "undefined" ELSE answer

\* The pick of the network type: cancelled, external, internal
TypePicks == {"undefined", "external", "internal"}

\* ContainerCli.createVolume({ name }): the argument vector, the name last
createVolume(options) ==
    [verb |-> <<"volume", "create">>, flags |-> <<>>, name |-> options.name]

\* ContainerCli.createNetwork(options): the argument vector, the name last
createNetwork(options) ==
    [verb |-> <<"network", "create">>,
     flags |-> (IF options.subnet # "undefined"
                THEN <<"--subnet", options.subnet>> ELSE <<>>)
               \o (IF options.gateway # "undefined"
                   THEN <<"--gateway", options.gateway>> ELSE <<>>)
               \o (IF options.internal THEN <<"--internal">> ELSE <<>>),
     name |-> options.name]

\* No create command is running and none has run
FormIdle ==
    [pc |-> "idle", name |-> <<>>, rejected |-> FALSE, cancelled |-> FALSE,
     subnet |-> "undefined", gateway |-> "undefined", calls |-> <<>>,
     shown |-> NoMessage]

----------------------------------------------------------------------------
(* Activation *)

\* activate() has not been called
ActIdle ==
    [pc |-> "idle", probe |-> CHOOSE p \in Rejections : TRUE,
     available |-> FALSE, warned |-> FALSE, action |-> "none",
     providers |-> {}, views |-> {}, commands |-> FALSE,
     disposal |-> FALSE, loads |-> {}, loadThrew |-> FALSE,
     settled |-> "pending"]

\* What the warning about the missing CLI resolves to: one of its two
\* buttons, or undefined when it is dismissed
WarningActions == {"Open Settings", "Learn More", "undefined"}

\* ContainerCli.isAvailable over the envelope of `--version`
isAvailable(result) == result.success

\* The synchronous part of activate from the construction of the providers
\* to the call of cli.getVersion(): the four providers, their tree views,
\* the commands, the disposal subscription
setUp(a) ==
    [a EXCEPT !.pc = "version", !.providers = Kinds, !.views = Kinds,
              !.commands = TRUE, !.disposal = TRUE]

\* An activate that returns once it has shown the warning
afterProbeGiveUp(a, available) ==
    IF available
    THEN setUp(a)
    ELSE [a EXCEPT !.pc = "ended", !.warned = TRUE, !.settled = "fulfilled"]

\* activate after `await cli.isAvailable()`: the warning when the CLI is
\* not available, the set-up otherwise
afterProbe(a, available) ==
    IF available
    THEN setUp(a)
    ELSE [a EXCEPT !.pc = "warning", !.warned = TRUE]

\* activate after the warning is answered: the two buttons open a page and
\* await it, then the set-up follows as it does with no answer
afterWarning(a, action) ==
    IF action \in {"Open Settings", "Learn More"}
    THEN [a EXCEPT !.pc = "opening", !.action = action]
    ELSE [setUp(a) EXCEPT !.action = action]

----------------------------------------------------------------------------
(* History *)

NoEvent ==
    [op |-> "init", origin |-> "none", outcome |-> "none", doc |-> NoStdout,
     same |-> FALSE, dropped |-> FALSE, launched |-> FALSE, fired |-> FALSE,
     delivered |-> FALSE, seen |-> <<>>, settled |-> "none"]

Launch(op, origin) ==
    [NoEvent EXCEPT !.op = op, !.origin = origin, !.launched = TRUE]

----------------------------------------------------------------------------
ProviderInit ==
    /\ kind \in Kinds
    /\ settings \in {s \in Settings :
                       s.confirmBeforeDelete = DefaultConfirmBeforeDelete}
    /\ config = loadConfig(settings)
    /\ configListening = TRUE
    /\ snapshot = <<>>
    /\ initialLoadDone = FALSE
    /\ refreshTimer = startAutoRefresh(config.refreshInterval).handle
    /\ liveTimers = startAutoRefresh(config.refreshInterval).timers
    /\ emitterDisposed = FALSE
    /\ pending = <<>>
    /\ timeouts = 0
    /\ disposed = FALSE
    /\ intervalAtConstruction = config.refreshInterval
    /\ source = {}
    /\ populated = FALSE
    /\ last = NoEvent
    /\ calls = <<>>

Init ==
    /\ ProviderInit
    /\ gw = GwIdle
    /\ cmd = CmdIdle
    /\ act = ActIdle
    /\ fn = FnIdle
    /\ form = FormIdle

\* The interval callback: this.refresh()
Tick ==
    /\ \E t \in liveTimers : TRUE
    /\ Len(pending) < MaxInFlight
    /\ pending' = startRefresh(pending, "call")
    /\ last' = Launch("tick", "call")
    /\ UNCHANGED <<calls, kind, settings, config, configListening, snapshot,
                   initialLoadDone, refreshTimer, liveTimers, emitterDisposed,
                   timeouts, disposed, intervalAtConstruction, source,
                   populated>>
    /\ UNCHANGED outside

\* provider.refresh() called on demand: the appleContainers.refresh command,
\* the initial load of activate, the refresh after a command that succeeded.
\* The commands are registered on context.subscriptions and are gone once the
\* extension has been disposed.
Refresh ==
    /\ ~disposed
    /\ Len(pending) < MaxInFlight
    /\ pending' = startRefresh(pending, "call")
    /\ last' = Launch("refresh", "call")
    /\ UNCHANGED <<calls, kind, settings, config, configListening, snapshot,
                   initialLoadDone, refreshTimer, liveTimers, emitterDisposed,
                   timeouts, disposed, intervalAtConstruction, source,
                   populated>>
    /\ UNCHANGED outside

\* getChildren() at the root, called by the tree view
GetChildren ==
    /\ ~disposed
    /\ IF needsLoad(kind, snapshot, initialLoadDone)
       THEN /\ Len(pending) < MaxInFlight
            /\ pending' = startRefresh(pending, "read")
            /\ last' = Launch("getChildren", "read")
            /\ UNCHANGED snapshot
       ELSE /\ snapshot' = sortInPlace(kind, snapshot)
            /\ last' = [NoEvent EXCEPT !.op = "getChildren", !.origin = "read"]
            /\ UNCHANGED pending
    /\ UNCHANGED <<calls, kind, settings, config, configListening, initialLoadDone,
                   refreshTimer, liveTimers, emitterDisposed, timeouts,
                   disposed, intervalAtConstruction, source,
                   populated>>
    /\ UNCHANGED outside

\* getContainer / getImage / getVolume / getNetwork: a find over the field
Lookup ==
    /\ ~disposed
    /\ last' = [NoEvent EXCEPT !.op = "lookup", !.origin = "read"]
    /\ UNCHANGED <<calls, kind, settings, config, configListening, snapshot,
                   initialLoadDone, refreshTimer, liveTimers, emitterDisposed,
                   pending, timeouts, disposed, intervalAtConstruction, source,
                   populated>>
    /\ UNCHANGED outside

\* A list subprocess ends and the refresh that awaited it resumes.  The
\* continuation of a getChildren that awaited the refresh runs in the same
\* turn of the event loop (a microtask), so its sort belongs to this step.
Resume ==
    \E i \in 1..Len(pending), proc \in ProcOutcomes :
        LET origin == pending[i].origin
            result == execute(proc, TRUE)
            listed == listResources(kind, result)
            done   == refreshResume(snapshot, listed.list)
            rest   == SubSeq(pending, 1, i - 1) \o SubSeq(pending, i + 1, Len(pending))
            ev     == [NoEvent EXCEPT !.op = "resume", !.origin = origin,
                                      !.doc = proc.stdout,
                                      !.settled = refreshSettles(listed),
                                      !.same = (listed.list = snapshot),
                                      !.dropped = (Range(snapshot) \ Range(listed.list) # {})]
        IN
        /\ pending' = rest
        /\ IF listed.threw
           THEN /\ last' = [ev EXCEPT !.outcome = "threw"]
                /\ UNCHANGED <<snapshot, initialLoadDone, source, populated>>
           ELSE /\ snapshot' = IF origin = "read"
                               THEN sortInPlace(kind, done.snapshot)
                               ELSE done.snapshot
                /\ initialLoadDone' = (initialLoadDone \/ kind = "Container")
                /\ populated' = (populated \/ result.success)
                /\ source' = IF result.success THEN Range(Listed(proc.stdout))
                              ELSE source
                /\ last' = [ev EXCEPT
                              !.outcome = IF result.success THEN "ok" ELSE "failed",
                              !.fired = done.fired,
                              !.delivered = fireReachesListeners(done.fired,
                                                                   emitterDisposed),
                              !.seen = done.seen]
        /\ UNCHANGED <<calls, kind, settings, config, configListening, refreshTimer,
                       liveTimers, emitterDisposed, timeouts, disposed,
                       intervalAtConstruction>>
        /\ UNCHANGED outside

\* The poll interval is changed in the settings; the CLI wrapper's
\* listener, while subscribed, replaces its configuration by a fresh
\* loadConfig().
ConfigChange ==
    \E s \in {[settings EXCEPT !.refreshInterval = i] : i \in PollIntervals} :
        /\ s # settings
        /\ settings' = s
        /\ config' = IF configListening THEN loadConfig(s) ELSE config
        /\ last' = [NoEvent EXCEPT !.op = "configChange"]
        /\ UNCHANGED <<calls, kind, configListening, snapshot, initialLoadDone,
                       refreshTimer, liveTimers, emitterDisposed, pending,
                       timeouts, disposed, intervalAtConstruction, source,
                   populated>>
        /\ UNCHANGED outside

\* appleContainers.pullImage / buildImage: the work runs in a terminal and a
\* refresh of the images provider is scheduled with setTimeout.
ScheduleDelayedRefresh ==
    /\ kind = "Image"
    /\ ~disposed
    /\ timeouts < MaxTimeouts
    /\ timeouts' = timeouts + 1
    /\ last' = [NoEvent EXCEPT !.op = "schedule"]
    /\ UNCHANGED <<calls, kind, settings, config, configListening, snapshot,
                   initialLoadDone, refreshTimer, liveTimers, emitterDisposed,
                   pending, disposed, intervalAtConstruction, source,
                   populated>>
    /\ UNCHANGED outside

\* The setTimeout callback: void imagesProvider.refresh()
TimeoutFire ==
    /\ timeouts > 0
    /\ Len(pending) < MaxInFlight
    /\ timeouts' = timeouts - 1
    /\ pending' = startRefresh(pending, "call")
    /\ last' = Launch("timeout", "call")
    /\ UNCHANGED <<calls, kind, settings, config, configListening, snapshot,
                   initialLoadDone, refreshTimer, liveTimers, emitterDisposed,
                   disposed, intervalAtConstruction, source,
                   populated>>
    /\ UNCHANGED outside

\* provider.dispose(): stopAutoRefresh(), then the emitter is disposed
ProviderDispose ==
    LET stopped == stopAutoRefresh(refreshTimer, liveTimers) IN
    /\ refreshTimer' = stopped.handle
    /\ liveTimers' = stopped.timers
    /\ emitterDisposed' = TRUE
    /\ disposed' = TRUE

\* The disposal subscription of activate: the provider, then the CLI wrapper
Deactivate ==
    /\ ~disposed
    /\ ProviderDispose
    /\ configListening' = cliDispose(configListening)
    /\ last' = [NoEvent EXCEPT !.op = "dispose"]
    /\ UNCHANGED <<calls, kind, settings, config, snapshot, initialLoadDone, pending,
                   timeouts, intervalAtConstruction, source,
                   populated>>
    /\ UNCHANGED outside

\* dispose() called again on a provider that has been disposed
DisposeAgain ==
    /\ disposed
    /\ ProviderDispose
    /\ last' = [NoEvent EXCEPT !.op = "disposeAgain"]
    /\ UNCHANGED <<calls, kind, settings, config, configListening, snapshot,
                   initialLoadDone, pending, timeouts, intervalAtConstruction,
                   source,
                   populated>>
    /\ UNCHANGED outside

Next ==
    \/ Tick
    \/ Refresh
    \/ GetChildren
    \/ Lookup
    \/ Resume
    \/ ConfigChange
    \/ ScheduleDelayedRefresh
    \/ TimeoutFire
    \/ Deactivate
    \/ DisposeAgain

Spec == Init /\ [][Next]_vars

----------------------------------------------------------------------------
(* The configuration of the CLI wrapper: the binary path is changed in the *)
(* settings while invocations start, run and end, and the extension is     *)
(* disposed.  The provider followed is the images provider, whose delayed  *)
(* refreshes (after a pull or a build) are not cancelled by disposal.      *)

ConfigInit ==
    /\ ProviderInit
    /\ kind = "Image"
    /\ settings.refreshInterval = DefaultRefreshInterval
    /\ gw = GwIdle
    /\ cmd = CmdIdle
    /\ act = ActIdle
    /\ fn = FnIdle
    /\ form = FormIdle

\* A command or a refresh calls execute while the extension is active
CliInvoke ==
    /\ ~disposed
    /\ Len(calls) < MaxCalls
    /\ calls' = Append(calls, [startExecute(config, "call") EXCEPT
                                 !.wanted = settings.containerPath])
    /\ last' = Launch("execute", "call")
    /\ UNCHANGED <<kind, settings, config, configListening, snapshot,
                   initialLoadDone, refreshTimer, liveTimers, emitterDisposed,
                   pending, timeouts, disposed, intervalAtConstruction, source,
                   populated>>
    /\ UNCHANGED outside

\* The setTimeout callback of pull / build: imagesProvider.refresh() calls
\* listImages, which calls execute, whether or not the extension has been
\* disposed in the meantime
DelayedInvoke ==
    /\ timeouts > 0
    /\ Len(calls) < MaxCalls
    /\ timeouts' = timeouts - 1
    /\ calls' = Append(calls, [startExecute(config, "timeout") EXCEPT
                                 !.wanted = settings.containerPath])
    /\ last' = Launch("timeout", "call")
    /\ UNCHANGED <<kind, settings, config, configListening, snapshot,
                   initialLoadDone, refreshTimer, liveTimers, emitterDisposed,
                   pending, disposed, intervalAtConstruction, source,
                   populated>>
    /\ UNCHANGED outside

\* The subprocess of an invocation ends
CliSettle ==
    \E i \in 1..Len(calls) :
        /\ calls[i].state = "running"
        /\ calls' = [calls EXCEPT ![i] = endExecute(calls[i], "exit")]
        /\ last' = [NoEvent EXCEPT !.op = "settle"]
        /\ UNCHANGED <<kind, settings, config, configListening, snapshot,
                       initialLoadDone, refreshTimer, liveTimers,
                       emitterDisposed, pending, timeouts, disposed,
                       intervalAtConstruction, source, populated>>
        /\ UNCHANGED outside

\* appleContainers.containerPath is changed in the settings; the listener,
\* while subscribed, replaces the configuration by a fresh loadConfig()
PathChange ==
    \E path \in ContainerPaths \ {settings.containerPath} :
        LET s == [settings EXCEPT !.containerPath = path] IN
        /\ settings' = s
        /\ config' = IF configListening THEN loadConfig(s) ELSE config
        /\ calls' = [i \in 1..Len(calls) |->
                        IF calls[i].state = "running"
                        THEN [calls[i] EXCEPT !.overtaken = TRUE]
                        ELSE calls[i]]
        /\ last' = [NoEvent EXCEPT !.op = "configChange"]
        /\ UNCHANGED <<kind, configListening, snapshot, initialLoadDone,
                       refreshTimer, liveTimers, emitterDisposed, pending,
                       timeouts, disposed, intervalAtConstruction, source,
                       populated>>
        /\ UNCHANGED outside

ConfigNext ==
    \/ CliInvoke
    \/ DelayedInvoke
    \/ CliSettle
    \/ PathChange
    \/ ScheduleDelayedRefresh
    \/ Deactivate

ConfigSpec == ConfigInit /\ [][ConfigNext]_vars

----------------------------------------------------------------------------
(* Termination of the invocations: a list subprocess is launched for a     *)
(* refresh and either exits by itself or hangs; the kill timer of execFile *)
(* ends it after the timeout.  The refresh that awaits the invocation      *)
(* resumes, and finishes, in the turn in which the invocation settles.     *)

LiveInit ==
    /\ ProviderInit
    /\ kind = "Image"
    /\ settings.refreshInterval = DefaultRefreshInterval
    /\ gw = GwIdle
    /\ cmd = CmdIdle
    /\ act = ActIdle
    /\ fn = FnIdle
    /\ form = FormIdle

\* refresh() is called (by a tick, a command or a first read) and its list
\* subprocess starts; the subprocess may be one that never exits by itself
LiveInvoke ==
    \E origin \in {"call", "read"}, hung \in BOOLEAN :
        /\ Len(calls) < MaxCalls
        /\ calls' = Append(calls, [startExecute(config, origin) EXCEPT
                                     !.hung = hung,
                                     !.wanted = settings.containerPath])
        /\ last' = Launch("refresh", origin)
        /\ UNCHANGED <<kind, settings, config, configListening, snapshot,
                       initialLoadDone, refreshTimer, liveTimers,
                       emitterDisposed, pending, timeouts, disposed,
                       intervalAtConstruction, source, populated>>
        /\ UNCHANGED outside

\* The subprocess of invocation i exits by itself
ProcessExits(i) ==
    /\ i <= Len(calls)
    /\ calls[i].state = "running"
    /\ ~calls[i].hung
    /\ calls' = [calls EXCEPT ![i] = endExecute(calls[i], "exit")]
    /\ last' = [NoEvent EXCEPT !.op = "settle"]
    /\ UNCHANGED <<kind, settings, config, configListening, snapshot,
                   initialLoadDone, refreshTimer, liveTimers, emitterDisposed,
                   pending, timeouts, disposed, intervalAtConstruction, source,
                   populated>>
    /\ UNCHANGED outside

\* The kill timer of invocation i fires while its subprocess still runs:
\* the subprocess is killed and execFileAsync rejects
TimeoutKills(i) ==
    /\ i <= Len(calls)
    /\ calls[i].state = "running"
    /\ killTimerArmed(execOptions)
    /\ calls' = [calls EXCEPT ![i] = endExecute(calls[i], "timeout")]
    /\ last' = [NoEvent EXCEPT !.op = "settle"]
    /\ UNCHANGED <<kind, settings, config, configListening, snapshot,
                   initialLoadDone, refreshTimer, liveTimers, emitterDisposed,
                   pending, timeouts, disposed, intervalAtConstruction, source,
                   populated>>
    /\ UNCHANGED outside

LiveNext ==
    \/ LiveInvoke
    \/ \E i \in 1..MaxCalls : ProcessExits(i)
    \/ \E i \in 1..MaxCalls : TimeoutKills(i)

\* A timer that has been armed fires: the kill of a subprocess that still
\* runs is not postponed forever
LiveSpec ==
    /\ LiveInit
    /\ [][LiveNext]_vars
    /\ \A i \in 1..MaxCalls : WF_vars(TimeoutKills(i))

----------------------------------------------------------------------------
(* The execution gateway on its own: execute is called with parseJson, the *)
(* subprocess ends in one of the ways GatewayProcs lists, and execute      *)
(* returns.                                                                *)

\* The provider the gateway's behaviours leave untouched
ProviderParked ==
    /\ ProviderInit
    /\ kind = "Container"
    /\ settings.refreshInterval = 0

GatewayInit ==
    /\ ProviderParked
    /\ cmd = CmdIdle
    /\ act = ActIdle
    /\ fn = FnIdle
    /\ form = FormIdle
    /\ gw \in [pc : {"called"}, parseJson : BOOLEAN, proc : GatewayProcs,
                result : {NoResult}, launched : {0}, log : {<<>>}]

\* The subprocess ends and execute returns
Execute ==
    /\ gw.pc = "called"
    /\ gw' = [gw EXCEPT !.pc = "returned",
                         !.result = execute(gw.proc, gw.parseJson),
                         !.launched = @ + launches(gw.proc),
                         !.log = @ \o outputLines(gw.proc, gw.parseJson)]
    /\ UNCHANGED <<providerVars, cmd, act, fn, form>>

GatewayNext == Execute

GatewaySpec == GatewayInit /\ [][GatewayNext]_vars

----------------------------------------------------------------------------
(* Properties *)

RefreshSucceeded == last.op = "resume" /\ last.outcome = "ok"
RefreshFailed    == last.op = "resume" /\ last.outcome # "ok"

SameResources(seq, set) ==
    Range(seq) = set /\ Len(seq) = Cardinality(set)

\* C1: a timer tick that fires while a refresh of the kind is in flight is a
\* no-op: a tick launches a list subprocess only when none is in flight, so
\* after a tick that launched one, that one is the only one in flight.
C1_TickSkipsWhileRefreshing ==
    (last.op = "tick" /\ last.launched) => Len(pending) = 1

\* C2: a failed refresh (the subprocess fails, or its output cannot be
\* parsed) leaves the snapshot as it was before the refresh.
C2_FailedRefreshKeepsSnapshot ==
    [][(last'.op = "resume" /\ last'.outcome # "ok") => snapshot' = snapshot]_vars

\* C3: a failed refresh emits no change notification.
C3_FailedRefreshDoesNotNotify ==
    RefreshFailed => ~last.fired

\* C4: every successful refresh calls fire() on the emitter, which reaches
\* the observers while the emitter is not disposed, also when the listing
\* equals the snapshot held before; and when fire() runs the field already
\* holds the new listing.
C4_SuccessfulRefreshNotifiesAfterReplace ==
    RefreshSucceeded =>
        /\ last.fired
        /\ (~emitterDisposed => last.delivered)
        /\ last.seen = Listed(last.doc)

C4_Witness ==
    /\ RefreshSucceeded
    /\ last.same
    /\ Len(snapshot) > 0
    /\ last.delivered

\* C5: after a successful refresh the snapshot holds exactly the resources
\* of the list response (in the response's order, or sorted when the refresh
\* was the first load of a getChildren), and nothing of the snapshot before.
C5_SuccessfulRefreshReplacesWholesale ==
    RefreshSucceeded =>
        /\ SameResources(snapshot, Range(Listed(last.doc)))
        /\ (last.origin # "read" => snapshot = Listed(last.doc))

C5_Witness ==
    /\ RefreshSucceeded
    /\ last.dropped
    /\ Len(snapshot) > 0

\* C6: in every state the snapshot is empty or is the complete listing of
\* one single list response (possibly reordered by getChildren's sort): it
\* never mixes the records of two responses and never holds part of one.
C6_SnapshotIsOneCompleteListing ==
    snapshot = <<>> \/ SameResources(snapshot, source)

C6_Witness ==
    /\ RefreshSucceeded
    /\ last.dropped
    /\ Len(snapshot) = MaxEntities
    /\ Len(pending) > 0

\* C7: once the provider is disposed no list subprocess of its kind is
\* launched any more.
C7_NoInvocationAfterDispose ==
    ~(disposed /\ last.launched)

\* C8: dispose() clears the timer handle and the timer and disposes the
\* emitter, whether or not a timer was ever started, and a dispose() on a
\* provider already disposed changes nothing of the provider.
C8_DisposeSafeAndIdempotent ==
    [][last'.op \in {"dispose", "disposeAgain"} =>
          /\ refreshTimer' = 0
          /\ liveTimers' = {}
          /\ emitterDisposed'
          /\ (disposed =>
                UNCHANGED <<snapshot, initialLoadDone, refreshTimer, liveTimers,
                            emitterDisposed, pending, timeouts, config,
                            disposed>>)]_vars

C8_Witness ==
    /\ last.op = "disposeAgain"
    /\ intervalAtConstruction = 0
    /\ refreshTimer = 0

\* C9: a change of the poll interval restarts the provider's timer with the
\* new interval: while the provider is not disposed, a timer runs exactly
\* when the configured interval is positive, and runs with that interval.
C9_TimerFollowsPollInterval ==
    ~disposed =>
        /\ (config.refreshInterval > 0 <=> liveTimers # {})
        /\ \A t \in liveTimers : t.period = config.refreshInterval

\* C10: a provider constructed with poll interval 0 has no timer and no
\* tick ever triggers a refresh of it.
C10_NoTimerWhenIntervalZero ==
    intervalAtConstruction = 0 =>
        /\ refreshTimer = 0
        /\ liveTimers = {}
        /\ last.op # "tick"

C10_Witness ==
    /\ intervalAtConstruction = 0
    /\ RefreshSucceeded
    /\ last.origin = "call"
    /\ config.refreshInterval > 0

\* C11: reading the snapshot (getChildren, getContainer / getImage /
\* getVolume / getNetwork) launches a list subprocess only before any
\* refresh has populated the field: once a refresh has completed, a read
\* launches none, also when the listing it installed is empty.
C11_ReadNeverRefreshesOncePopulated ==
    (last.op \in {"getChildren", "lookup"} /\ last.launched) => ~populated

\* C12: a caller of refresh() sees a failed listing: the way the promise of
\* refresh() settles sets a failed listing apart from a successful listing
\* without records, which fulfils it with no value.
C12_ExplicitRefreshSeesFailure ==
    (RefreshFailed /\ last.origin = "call") => last.settled # "fulfilled"

----------------------------------------------------------------------------
(* The restart and delete commands, run on an item of a provider that has  *)
(* loaded a listing.  A handler that succeeded awaits provider.refresh().  *)

CommandInit ==
    /\ kind \in Kinds
    /\ settings \in {s \in Settings : s.refreshInterval = 0}
    /\ config = loadConfig(settings)
    /\ configListening = TRUE
    /\ snapshot \in {l \in RawLists :
                       Len(l) > 0 /\ \A i \in 1..Len(l) : IsObject(l[i])}
    /\ initialLoadDone = (kind = "Container")
    /\ refreshTimer = startAutoRefresh(config.refreshInterval).handle
    /\ liveTimers = startAutoRefresh(config.refreshInterval).timers
    /\ emitterDisposed = FALSE
    /\ pending = <<>>
    /\ timeouts = 0
    /\ disposed = FALSE
    /\ intervalAtConstruction = config.refreshInterval
    /\ source = Range(snapshot)
    /\ populated = TRUE
    /\ last = NoEvent
    /\ calls = <<>>
    /\ gw = GwIdle
    /\ cmd = CmdIdle
    /\ act = ActIdle
    /\ fn = FnIdle
    /\ form = FormIdle

\* No handler is between two of its awaits
CmdAtRest == cmd.pc \in {"idle", "declined", "terminal", "ended"}

\* The handler's last lines: the message, and the refresh when it succeeded
Finish(c, result) ==
    /\ cmd' = [c EXCEPT !.pc = "ended", !.result = result,
                        !.shown = report(result)]
    /\ IF refreshAfter(result)
       THEN /\ pending' = startRefresh(pending, "call")
            /\ last' = Launch("refresh", "call")
       ELSE UNCHANGED <<pending, last>>

\* appleContainers.deleteContainer / deleteImage / deleteVolume /
\* deleteNetwork, up to its first await
DeleteCommand ==
    /\ CmdAtRest
    /\ Len(snapshot) > 0
    /\ cmd' = IF needsConfirm(config)
              THEN [CmdIdle EXCEPT !.name = "delete", !.pc = "confirming",
                                   !.confirmAtRun = TRUE]
              ELSE [CmdIdle EXCEPT !.name = "delete", !.pc = "deleting",
                                   !.calls = <<"delete">>]
    /\ UNCHANGED <<providerVars, gw, act, fn, form>>

\* The user answers the modal dialog of a delete
ConfirmAnswered ==
    \E answer \in ConfirmAnswers :
        /\ cmd.pc = "confirming"
        /\ cmd' = IF confirmed(answer)
                  THEN [cmd EXCEPT !.pc = "deleting", !.answer = answer,
                                   !.calls = <<"delete">>]
                  ELSE [cmd EXCEPT !.pc = "declined", !.answer = answer]
        /\ UNCHANGED <<providerVars, gw, act, fn, form>>

\* The delete subprocess ends
DeleteEnds ==
    \E proc \in CommandProcs :
        /\ cmd.pc = "deleting"
        /\ Len(pending) < MaxInFlight
        /\ Finish(cmd, execute(proc, FALSE))
        /\ UNCHANGED <<calls, kind, settings, config, configListening, snapshot,
                       initialLoadDone, refreshTimer, liveTimers,
                       emitterDisposed, timeouts, disposed,
                       intervalAtConstruction, source, populated, gw, act,
                       fn, form>>

\* appleContainers.restartContainer, up to the await of cli.stopContainer
RestartCommand ==
    /\ kind = "Container"
    /\ CmdAtRest
    /\ Len(snapshot) > 0
    /\ cmd' = [CmdIdle EXCEPT !.name = "restart", !.pc = "stopping",
                              !.calls = <<"stop">>]
    /\ UNCHANGED <<providerVars, gw, act, fn, form>>

\* The stop subprocess of a restart ends
StopEnds ==
    \E proc \in CommandProcs :
        LET stopResult == execute(proc, FALSE)
            c == [cmd EXCEPT !.stopResult = stopResult]
        IN
        /\ cmd.pc = "stopping"
        /\ Len(pending) < MaxInFlight
        /\ IF restartContinues(stopResult)
           THEN /\ cmd' = [c EXCEPT !.pc = "starting",
                                    !.calls = Append(cmd.calls, "start")]
                /\ UNCHANGED <<pending, last>>
           ELSE Finish(c, stopResult)
        /\ UNCHANGED <<calls, kind, settings, config, configListening, snapshot,
                       initialLoadDone, refreshTimer, liveTimers,
                       emitterDisposed, timeouts, disposed,
                       intervalAtConstruction, source, populated, gw, act,
                       fn, form>>

\* The start subprocess of a restart ends
StartEnds ==
    \E proc \in CommandProcs :
        /\ cmd.pc = "starting"
        /\ Len(pending) < MaxInFlight
        /\ Finish(cmd, execute(proc, FALSE))
        /\ UNCHANGED <<calls, kind, settings, config, configListening, snapshot,
                       initialLoadDone, refreshTimer, liveTimers,
                       emitterDisposed, timeouts, disposed,
                       intervalAtConstruction, source, populated, gw, act,
                       fn, form>>

\* appleContainers.startContainer / stopContainer, up to the await of the
\* subprocess
DirectCommand ==
    \E name \in DirectCommands(kind) :
        /\ CmdAtRest
        /\ Len(snapshot) > 0
        /\ cmd' = [CmdIdle EXCEPT !.name = name, !.pc = "running",
                                  !.calls = <<name>>]
        /\ UNCHANGED <<providerVars, gw, act, fn, form>>

\* appleContainers.runContainer / pruneImages / pruneVolumes / createVolume
\* / createNetwork, up to the await of the first question
PromptedCommand ==
    \E name \in PromptedCommands(kind) :
        /\ CmdAtRest
        /\ cmd' = [CmdIdle EXCEPT !.name = name, !.pc = "prompting"]
        /\ UNCHANGED <<providerVars, gw, act, fn, form>>

\* The questions of the handler are answered: it returns when one was
\* cancelled, hands a run that is not detached to a terminal, and otherwise
\* invokes its subprocess
PromptsAnswered ==
    /\ cmd.pc = "prompting"
    /\ \E how \in PromptOutcomes(cmd.name) :
        /\ cmd' = CASE how = "cancelled" ->
                         [cmd EXCEPT !.pc = "declined", !.answer = how]
                   [] how = "terminal" ->
                         [cmd EXCEPT !.pc = "terminal", !.answer = how]
                   [] OTHER ->
                         [cmd EXCEPT !.pc = "running", !.answer = how,
                                     !.calls = <<cmd.name>>]
        /\ UNCHANGED <<providerVars, gw, act, fn, form>>

\* The subprocess of a start, stop, detached run, prune or create ends
CommandEnds ==
    \E proc \in CommandProcs :
        /\ cmd.pc = "running"
        /\ Len(pending) < MaxInFlight
        /\ Finish(cmd, execute(proc, FALSE))
        /\ UNCHANGED <<calls, kind, settings, config, configListening, snapshot,
                       initialLoadDone, refreshTimer, liveTimers,
                       emitterDisposed, timeouts, disposed,
                       intervalAtConstruction, source, populated, gw, act,
                       fn, form>>

\* appleContainers.confirmBeforeDelete is changed in the settings
ToggleConfirm ==
    LET s == [settings EXCEPT !.confirmBeforeDelete = ~@] IN
    /\ settings' = s
    /\ config' = IF configListening THEN loadConfig(s) ELSE config
    /\ UNCHANGED <<calls, kind, configListening, snapshot, initialLoadDone,
                   refreshTimer, liveTimers, emitterDisposed, pending,
                   timeouts, disposed, intervalAtConstruction, source,
                   populated, last, gw, cmd, act, fn, form>>

CommandNext ==
    \/ DeleteCommand
    \/ ConfirmAnswered
    \/ DeleteEnds
    \/ RestartCommand
    \/ StopEnds
    \/ StartEnds
    \/ DirectCommand
    \/ PromptedCommand
    \/ PromptsAnswered
    \/ CommandEnds
    \/ ToggleConfirm
    \/ Resume

CommandSpec == CommandInit /\ [][CommandNext]_vars

----------------------------------------------------------------------------
(* activate(), one step per stretch of code between two awaits *)

ActivationInit ==
    /\ ProviderParked
    /\ gw = GwIdle
    /\ cmd = CmdIdle
    /\ act = ActIdle
    /\ fn = FnIdle
    /\ form = FormIdle

\* activate() is called: output channel, CLI wrapper, `--version` launched
Activate ==
    /\ act.pc = "idle"
    /\ act' = [act EXCEPT !.pc = "probing"]
    /\ UNCHANGED <<providerVars, gw, cmd, fn, form>>

\* The `--version` subprocess of isAvailable ends
ProbeEnds ==
    \E proc \in GatewayProcs :
        LET available == isAvailable(execute(proc, FALSE)) IN
        /\ act.pc = "probing"
        /\ act' = afterProbe([act EXCEPT !.probe = proc,
                                         !.available = available], available)
        /\ UNCHANGED <<providerVars, gw, cmd, fn, form>>

\* The user answers or dismisses the warning
WarningAnswered ==
    \E action \in WarningActions :
        /\ act.pc = "warning"
        /\ act' = afterWarning(act, action)
        /\ UNCHANGED <<providerVars, gw, cmd, fn, form>>

\* The settings page or the external page has been opened
OpenEnds ==
    /\ act.pc = "opening"
    /\ act' = setUp(act)
    /\ UNCHANGED <<providerVars, gw, cmd, fn, form>>

\* The `--version` subprocess of getVersion ends: the activation is logged
\* and the initial load calls refresh() on the four providers
VersionEnds ==
    /\ act.pc = "version"
    /\ act' = [act EXCEPT !.pc = "loading", !.loads = act.providers]
    /\ UNCHANGED <<providerVars, gw, cmd, fn, form>>

\* The four list subprocesses of the initial load have ended: Promise.all
\* is rejected when a refresh is, and activate with it; otherwise
\* updateStatusBar() is called and activate is fulfilled
LoadEnds ==
    \E procs \in [{"Container", "Image"} -> ProcOutcomes] :
        LET threw == \E k \in DOMAIN procs :
                        listResources(k, execute(procs[k], TRUE)).threw
        IN
        /\ act.pc = "loading"
        /\ act' = [act EXCEPT !.pc = "ended", !.loadThrew = threw,
                              !.settled = IF threw THEN "rejected"
                                                   ELSE "fulfilled"]
        /\ UNCHANGED <<providerVars, gw, cmd, fn, form>>

ActivationNext ==
    \/ Activate
    \/ ProbeEnds
    \/ WarningAnswered
    \/ OpenEnds
    \/ VersionEnds
    \/ LoadEnds

ActivationSpec == ActivationInit /\ [][ActivationNext]_vars

----------------------------------------------------------------------------
(* appleContainers.createVolume and appleContainers.createNetwork, one     *)
(* step per answer of the user and per subprocess                          *)

CreateInit ==
    /\ ProviderInit
    /\ kind \in {"Volume", "Network"}
    /\ settings.refreshInterval = 0
    /\ gw = GwIdle
    /\ cmd = CmdIdle
    /\ act = ActIdle
    /\ fn = FnIdle
    /\ form = FormIdle

\* The command is run: the name box opens
CreateCommand ==
    /\ form.pc = "idle"
    /\ form' = [form EXCEPT !.pc = "naming"]
    /\ UNCHANGED <<providerVars, gw, cmd, act, fn>>

\* The user presses Enter on a typed name.  The box accepts it only when
\* validateInput returns no message; the handler then goes on after
\* `if (!name) return`.
NameSubmitted ==
    \E value \in TypedNames :
        /\ form.pc = "naming"
        /\ IF validateInput(value) # "null"
           THEN /\ form' = [form EXCEPT !.rejected = TRUE]
                /\ UNCHANGED <<pending, last>>
           ELSE IF value = <<>>
           THEN /\ form' = [form EXCEPT !.pc = "ended", !.cancelled = TRUE]
                /\ UNCHANGED <<pending, last>>
           ELSE IF kind = "Volume"
           THEN /\ form' = [form EXCEPT
                              !.pc = "creating", !.name = value,
                              !.calls = <<createVolume([name |-> trim(value)])>>]
                /\ UNCHANGED <<pending, last>>
           ELSE /\ form' = [form EXCEPT !.pc = "subnet", !.name = value]
                /\ UNCHANGED <<pending, last>>
        /\ UNCHANGED <<calls, kind, settings, config, configListening, snapshot,
                       initialLoadDone, refreshTimer, liveTimers,
                       emitterDisposed, timeouts, disposed,
                       intervalAtConstruction, source, populated, gw, cmd,
                       act, fn>>

\* The user closes the name box: it resolves to undefined
NameCancelled ==
    /\ form.pc = "naming"
    /\ form' = [form EXCEPT !.pc = "ended", !.cancelled = TRUE]
    /\ UNCHANGED <<providerVars, gw, cmd, act, fn>>

\* The subnet box is answered; the gateway box follows a subnet
SubnetAnswered ==
    \E answer \in AddressAnswers :
        /\ form.pc = "subnet"
        /\ form' = [form EXCEPT
                      !.subnet = answer,
                      !.pc = IF answer \in {"undefined", ""}
                             THEN "picking" ELSE "gateway"]
        /\ UNCHANGED <<providerVars, gw, cmd, act, fn>>

\* The gateway box is answered
GatewayAnswered ==
    \E answer \in AddressAnswers :
        /\ form.pc = "gateway"
        /\ form' = [form EXCEPT !.gateway = answer, !.pc = "picking"]
        /\ UNCHANGED <<providerVars, gw, cmd, act, fn>>

\* The network type is picked, or the pick is cancelled
TypePicked ==
    \E pick \in TypePicks :
        /\ form.pc = "picking"
        /\ form' = IF pick = "undefined"
                   THEN [form EXCEPT !.pc = "ended", !.cancelled = TRUE]
                   ELSE [form EXCEPT
                           !.pc = "creating",
                           !.calls = <<createNetwork(
                               [name |-> trim(form.name),
                                subnet |-> trimOrUndefined(form.subnet),
                                gateway |-> trimOrUndefined(form.gateway),
                                internal |-> (pick = "internal")])>>]
        /\ UNCHANGED <<providerVars, gw, cmd, act, fn>>

\* The create subprocess ends: the message, and the refresh on success
CreateEnds ==
    \E proc \in CommandProcs :
        LET result == execute(proc, FALSE) IN
        /\ form.pc = "creating"
        /\ form' = [form EXCEPT !.pc = "ended", !.shown = report(result)]
        /\ IF result.success
           THEN /\ pending' = startRefresh(pending, "call")
                /\ last' = Launch("refresh", "call")
           ELSE UNCHANGED <<pending, last>>
        /\ UNCHANGED <<calls, kind, settings, config, configListening, snapshot,
                       initialLoadDone, refreshTimer, liveTimers,
                       emitterDisposed, timeouts, disposed,
                       intervalAtConstruction, source, populated, gw, cmd,
                       act, fn>>

CreateNext ==
    \/ CreateCommand
    \/ NameSubmitted
    \/ NameCancelled
    \/ SubnetAnswered
    \/ GatewayAnswered
    \/ TypePicked
    \/ CreateEnds

CreateSpec == CreateInit /\ [][CreateNext]_vars

----------------------------------------------------------------------------
(* The argument builders: runContainer and buildImage *)

RECURSIVE Lists(_, _)
\* The sequences over S of at most n elements
Lists(S, n) ==
    IF n = 0 THEN {<<>>}
    ELSE Lists(S, n - 1)
         \cup {Append(l, x) : l \in {m \in Lists(S, n - 1) : Len(m) = n - 1},
                              x \in S}

\* The keys of a Record<string, string>.  A key that is a canonical array
\* index ("1", "2") carries its number; every other key carries -1.
MapKeys ==
    {[text |-> "A", index |-> -1], [text |-> "B", index |-> -1],
     [text |-> "1", index |-> 1], [text |-> "2", index |-> 2]}

\* The value stored under a key
ValueOf(key) == "v" \o key.text

\* A map, as the sequence of its entries in the order they were inserted
Maps ==
    {[i \in 1..Len(keys) |-> [key |-> keys[i], value |-> ValueOf(keys[i])]] :
        keys \in {l \in Lists(MapKeys, MaxEntries) :
                    \A i, j \in 1..Len(l) : i # j => l[i] # l[j]}}

\* An Object.entries that walks the properties in insertion order
entriesInsertionOrder(m) == m

\* Object.entries: the own properties in OrdinaryOwnPropertyKeys order, the
\* array-index keys first in ascending numeric order, then the other string
\* keys in insertion order
entries(m) ==
    SortSeq(SelectSeq(m, LAMBDA e : e.key.index >= 0),
            LAMBDA a, b : a.key.index < b.key.index)
    \o SelectSeq(m, LAMBDA e : e.key.index < 0)

\* Entries of ports, volumes and mounts.  In an entry an optional text that
\* is absent is written "": the builder tests it for truthiness only.
PortMappings ==
    {[host |-> 8080, container |-> 80, hostIp |-> "", protocol |-> ""],
     [host |-> 8080, container |-> 80, hostIp |-> "", protocol |-> "tcp"],
     [host |-> 53, container |-> 5353, hostIp |-> "127.0.0.1",
      protocol |-> "udp"]}

VolumeMappings == [source : {"/data"}, target : {"/app"}, readonly : BOOLEAN]

MountMappings ==
    [type : {"bind", "tmpfs"}, source : {"/src"}, target : {"/dst"},
     readonly : BOOLEAN]

\* The lists a list-typed field may hold
PortLists == Lists(PortMappings, MaxEntries)
VolumeLists == Lists(VolumeMappings, MaxEntries)
MountLists == Lists(MountMappings, MaxEntries)

\* The optional fields of RunContainerOptions and BuildImageOptions by type
StringFields ==
    {"name", "envFile", "network", "workdir", "user", "memory", "platform",
     "entrypoint", "dockerfile", "tag", "target"}
BooleanFields ==
    {"detach", "interactive", "tty", "remove", "rosetta", "ssh", "noCache",
     "pull"}
MapFields == {"env", "labels", "buildArgs"}
TextListFields == {"cmd", "dns", "dnsSearch", "tags"}

RunFields ==
    {"name", "detach", "interactive", "tty", "remove", "env", "envFile",
     "ports", "volumes", "mounts", "network", "workdir", "user", "cpus",
     "memory", "entrypoint", "cmd", "platform", "labels", "dns", "dnsSearch",
     "rosetta", "ssh"}

BuildFields ==
    {"dockerfile", "tag", "tags", "buildArgs", "target", "platform",
     "noCache", "pull", "labels"}

\* The values a field may be given when it is present
Values(f) ==
    CASE f \in StringFields -> {"", f \o "-value"}
      [] f \in BooleanFields -> BOOLEAN
      [] f \in MapFields -> Maps
      [] f \in TextListFields -> Lists({f \o "-1", f \o "-2"}, MaxEntries)
      [] f = "cpus" -> {0, 2}
      [] f = "ports" -> PortLists
      [] f = "volumes" -> VolumeLists
      [] f = "mounts" -> MountLists

\* A request with only its required field.  `present` names the optional
\* fields the request holds; a field outside it is undefined, whatever the
\* record shows for it.
RunOnlyImage ==
    [present |-> {}, image |-> "nginx", name |-> "", detach |-> FALSE,
     interactive |-> FALSE, tty |-> FALSE, remove |-> FALSE, env |-> <<>>,
     envFile |-> "", ports |-> <<>>, volumes |-> <<>>, mounts |-> <<>>,
     network |-> "", workdir |-> "", user |-> "", cpus |-> 0, memory |-> "",
     entrypoint |-> "", cmd |-> <<>>, platform |-> "", labels |-> <<>>,
     dns |-> <<>>, dnsSearch |-> <<>>, rosetta |-> FALSE, ssh |-> FALSE]

BuildOnlyContext ==
    [present |-> {}, context |-> ".", dockerfile |-> "", tag |-> "",
     tags |-> <<>>, buildArgs |-> <<>>, target |-> "", platform |-> "",
     noCache |-> FALSE, pull |-> FALSE, labels |-> <<>>]

\* The request that holds field f with value v and field g with value w
\* besides the required field of request r (one field when f and g are the
\* same)
WithFields(r, f, v, g, w) ==
    [r EXCEPT ![f] = v, ![g] = w, !.present = {f, g}]

\* The run request of the documentation
RunDocumented ==
    [RunOnlyImage EXCEPT
        !.present = {"ports", "volumes"},
        !.ports = <<[host |-> 8080, container |-> 80, hostIp |-> "",
                     protocol |-> ""]>>,
        !.volumes = <<[source |-> "/data", target |-> "/app",
                       readonly |-> TRUE]>>]

\* The appleContainers.buildImage command: the request it hands to the CLI
\* wrapper.  picks is the set of build options ticked in the quick pick, and
\* answered tells whether the quick pick was accepted: on a dismissed pick
\* `optionItems?.some(...)` is undefined.
buildImageCommand(dockerfile, answered, picks) ==
    [BuildOnlyContext EXCEPT
        !.present = {"tag"}
                    \cup (IF dockerfile # "" THEN {"dockerfile"} ELSE {})
                    \cup (IF answered THEN {"noCache", "pull"} ELSE {}),
        !.dockerfile = dockerfile,
        !.tag = "app:latest",
        !.noCache = answered /\ "noCache" \in picks,
        !.pull = answered /\ "pull" \in picks]

BuildCommandRequests ==
    {buildImageCommand(d, a, p) :
        d \in {"", "Dockerfile"}, a \in BOOLEAN,
        p \in SUBSET {"noCache", "pull"}}

\* A runContainer that pushes the flag of a text field whenever the field
\* is not undefined
textFlagIfDefined(r, f, flag) ==
    IF f \in r.present THEN <<flag, r[f]>> ELSE <<>>

\* `if (options.f) args.push(flag, options.f)` for a text
textFlag(r, f, flag) ==
    IF f \in r.present /\ r[f] # "" THEN <<flag, r[f]>> ELSE <<>>

\* `if (options.f) args.push(flag)` for a boolean
switchFlag(r, f, flag) ==
    IF f \in r.present /\ r[f] THEN <<flag>> ELSE <<>>

RECURSIVE pushEach(_, _)
\* `for (const t of tokens) args.push(flag, t)`
pushEach(flag, tokens) ==
    IF tokens = <<>> THEN <<>>
    ELSE <<flag, Head(tokens)>> \o pushEach(flag, Tail(tokens))

\* `if (options.f) for (const t of options.f) args.push(flag, t)`
listFlag(r, f, flag) ==
    IF f \in r.present THEN pushEach(flag, r[f]) ELSE <<>>

\* `${key}=${value}` of every entry Object.entries yields
keyValues(m) ==
    [i \in 1..Len(entries(m)) |->
        entries(m)[i].key.text \o "=" \o entries(m)[i].value]

\* `if (options.f) for (const [key, value] of Object.entries(options.f))`
mapFlag(r, f, flag) ==
    IF f \in r.present THEN pushEach(flag, keyValues(r[f])) ELSE <<>>

\* A portSpec that writes the container port first
portSpecContainerFirst(port) ==
    (IF port.hostIp # "" THEN port.hostIp \o ":" ELSE "")
    \o ToString(port.container) \o ":" \o ToString(port.host)
    \o (IF port.protocol # "" /\ port.protocol # "tcp"
        THEN "/" \o port.protocol ELSE "")

\* portSpec, volSpec and mountSpec of runContainer
portSpec(port) ==
    (IF port.hostIp # "" THEN port.hostIp \o ":" ELSE "")
    \o ToString(port.host) \o ":" \o ToString(port.container)
    \o (IF port.protocol # "" /\ port.protocol # "tcp"
        THEN "/" \o port.protocol ELSE "")

volSpec(vol) ==
    vol.source \o ":" \o vol.target \o (IF vol.readonly THEN ":ro" ELSE "")

mountSpec(mount) ==
    "type=" \o mount.type \o ",source=" \o mount.source \o ",target="
    \o mount.target \o (IF mount.readonly THEN ",readonly" ELSE "")

\* runContainer: the argument vector handed to execute
runContainer(r) ==
    <<"run">>
    \o textFlag(r, "name", "--name")
    \o switchFlag(r, "detach", "--detach")
    \o switchFlag(r, "remove", "--rm")
    \o switchFlag(r, "interactive", "--interactive")
    \o switchFlag(r, "tty", "--tty")
    \o mapFlag(r, "env", "--env")
    \o textFlag(r, "envFile", "--env-file")
    \o (IF "ports" \in r.present
        THEN pushEach("--publish",
                      [i \in 1..Len(r.ports) |-> portSpec(r.ports[i])])
        ELSE <<>>)
    \o (IF "volumes" \in r.present
        THEN pushEach("--volume",
                      [i \in 1..Len(r.volumes) |-> volSpec(r.volumes[i])])
        ELSE <<>>)
    \o (IF "mounts" \in r.present
        THEN pushEach("--mount",
                      [i \in 1..Len(r.mounts) |-> mountSpec(r.mounts[i])])
        ELSE <<>>)
    \o textFlag(r, "network", "--network")
    \o textFlag(r, "workdir", "--workdir")
    \o textFlag(r, "user", "--user")
    \o (IF "cpus" \in r.present /\ r.cpus # 0
        THEN <<"--cpus", ToString(r.cpus)>> ELSE <<>>)
    \o textFlag(r, "memory", "--memory")
    \o textFlag(r, "platform", "--platform")
    \o textFlag(r, "entrypoint", "--entrypoint")
    \o mapFlag(r, "labels", "--label")
    \o listFlag(r, "dns", "--dns")
    \o listFlag(r, "dnsSearch", "--dns-search")
    \o switchFlag(r, "rosetta", "--rosetta")
    \o switchFlag(r, "ssh", "--ssh")
    \o <<r.image>>
    \o (IF "cmd" \in r.present THEN r.cmd ELSE <<>>)

\* buildImage: the shellArgs of the terminal it creates.  options.pull is
\* not read.
buildImage(r) ==
    <<"build">>
    \o textFlag(r, "dockerfile", "--file")
    \o textFlag(r, "tag", "--tag")
    \o listFlag(r, "tags", "--tag")
    \o mapFlag(r, "buildArgs", "--build-arg")
    \o textFlag(r, "target", "--target")
    \o textFlag(r, "platform", "--platform")
    \o switchFlag(r, "noCache", "--no-cache")
    \o mapFlag(r, "labels", "--label")
    \o <<r.context>>

\* A stopContainer that pushes the id before the flag
stopContainerIdFirst(r) ==
    <<"stop", r.id>>
    \o (IF "timeout" \in r.present
        THEN <<"--time", ToString(r.timeout)>> ELSE <<>>)

\* stopContainer(id, timeout): `if (timeout !== undefined)`, so that a
\* timeout of 0 has its flag
stopContainer(r) ==
    <<"stop">>
    \o (IF "timeout" \in r.present
        THEN <<"--time", ToString(r.timeout)>> ELSE <<>>)
    \o <<r.id>>

\* killContainer(id, signal)
killContainer(r) ==
    <<"kill">> \o textFlag(r, "signal", "--signal") \o <<r.id>>

\* deleteContainer(id, force)
deleteContainer(r) ==
    <<"delete">> \o switchFlag(r, "force", "--force") \o <<r.id>>

\* createVolume(options), with every field of CreateVolumeOptions
createVolumeArgs(r) ==
    <<"volume", "create">>
    \o textFlag(r, "driver", "--driver")
    \o mapFlag(r, "labels", "--label")
    \o <<r.name>>

\* createNetwork(options), with every field of CreateNetworkOptions
createNetworkArgs(r) ==
    <<"network", "create">>
    \o textFlag(r, "driver", "--driver")
    \o textFlag(r, "subnet", "--subnet")
    \o textFlag(r, "gateway", "--gateway")
    \o switchFlag(r, "internal", "--internal")
    \o mapFlag(r, "labels", "--label")
    \o <<r.name>>

\* The containers and the volumes / networks the requests name
ContainerIds == {"0a1b2c", "web"}
ResourceNames == {"data"}

\* The timeouts and signals a caller may pass
StopTimeouts == {0, 10}
KillSignals == {"", "KILL"}

BuilderInit ==
    /\ ProviderParked
    /\ gw = GwIdle
    /\ cmd = CmdIdle
    /\ act = ActIdle
    /\ form = FormIdle
    /\ \/ fn \in [op : {"run"}, done : {FALSE},
                  input : {RunOnlyImage, RunDocumented}, output : {<<>>}]
       \/ \E f \in RunFields, g \in RunFields :
            \E v \in Values(f), w \in Values(g) :
                fn = [op |-> "run", done |-> FALSE,
                      input |-> WithFields(RunOnlyImage, f, v, g, w),
                      output |-> <<>>]
       \/ fn \in [op : {"build"}, done : {FALSE},
                  input : {BuildOnlyContext} \cup BuildCommandRequests,
                  output : {<<>>}]
       \/ \E f \in BuildFields, g \in BuildFields :
            \E v \in Values(f), w \in Values(g) :
                fn = [op |-> "build", done |-> FALSE,
                      input |-> WithFields(BuildOnlyContext, f, v, g, w),
                      output |-> <<>>]
       \/ \E fields \in SUBSET {"timeout"}, id \in ContainerIds,
              t \in StopTimeouts :
            fn = [op |-> "stop", done |-> FALSE,
                  input |-> [present |-> fields, id |-> id, timeout |-> t],
                  output |-> <<>>]
       \/ \E fields \in SUBSET {"signal"}, id \in ContainerIds,
              sig \in KillSignals :
            fn = [op |-> "kill", done |-> FALSE,
                  input |-> [present |-> fields, id |-> id, signal |-> sig],
                  output |-> <<>>]
       \/ \E fields \in SUBSET {"force"}, id \in ContainerIds,
              force \in BOOLEAN :
            fn = [op |-> "delete", done |-> FALSE,
                  input |-> [present |-> fields, id |-> id, force |-> force],
                  output |-> <<>>]
       \/ \E fields \in SUBSET {"driver", "labels"}, name \in ResourceNames,
              driver \in {"", "local"}, labels \in Maps :
            fn = [op |-> "createVolume", done |-> FALSE,
                  input |-> [present |-> fields, name |-> name,
                             driver |-> driver, labels |-> labels],
                  output |-> <<>>]
       \/ \E fields \in SUBSET {"driver", "subnet", "gateway", "internal",
                                 "labels"},
              name \in ResourceNames, subnet \in {"", "10.0.0.0/24"},
              internal \in BOOLEAN, labels \in Maps :
            fn = [op |-> "createNetwork", done |-> FALSE,
                  input |-> [present |-> fields, name |-> name,
                             driver |-> "bridge", subnet |-> subnet,
                             gateway |-> "10.0.0.1", internal |-> internal,
                             labels |-> labels],
                  output |-> <<>>]

\* cli.runContainer(options)
RunContainer ==
    /\ fn.op = "run" /\ ~fn.done
    /\ fn' = [fn EXCEPT !.done = TRUE, !.output = runContainer(fn.input)]
    /\ UNCHANGED <<providerVars, gw, cmd, act, form>>

\* cli.buildImage(options)
BuildImage ==
    /\ fn.op = "build" /\ ~fn.done
    /\ fn' = [fn EXCEPT !.done = TRUE, !.output = buildImage(fn.input)]
    /\ UNCHANGED <<providerVars, gw, cmd, act, form>>

\* cli.stopContainer(id, timeout)
StopContainer ==
    /\ fn.op = "stop" /\ ~fn.done
    /\ fn' = [fn EXCEPT !.done = TRUE, !.output = stopContainer(fn.input)]
    /\ UNCHANGED <<providerVars, gw, cmd, act, form>>

\* cli.killContainer(id, signal)
KillContainer ==
    /\ fn.op = "kill" /\ ~fn.done
    /\ fn' = [fn EXCEPT !.done = TRUE, !.output = killContainer(fn.input)]
    /\ UNCHANGED <<providerVars, gw, cmd, act, form>>

\* cli.deleteContainer(id, force)
DeleteContainer ==
    /\ fn.op = "delete" /\ ~fn.done
    /\ fn' = [fn EXCEPT !.done = TRUE, !.output = deleteContainer(fn.input)]
    /\ UNCHANGED <<providerVars, gw, cmd, act, form>>

\* cli.createVolume(options)
CreateVolume ==
    /\ fn.op = "createVolume" /\ ~fn.done
    /\ fn' = [fn EXCEPT !.done = TRUE, !.output = createVolumeArgs(fn.input)]
    /\ UNCHANGED <<providerVars, gw, cmd, act, form>>

\* cli.createNetwork(options)
CreateNetwork ==
    /\ fn.op = "createNetwork" /\ ~fn.done
    /\ fn' = [fn EXCEPT !.done = TRUE, !.output = createNetworkArgs(fn.input)]
    /\ UNCHANGED <<providerVars, gw, cmd, act, form>>

BuilderNext ==
    \/ RunContainer
    \/ BuildImage
    \/ StopContainer
    \/ KillContainer
    \/ DeleteContainer
    \/ CreateVolume
    \/ CreateNetwork

BuilderSpec == BuilderInit /\ [][BuilderNext]_vars

----------------------------------------------------------------------------
(* The parsers of the CLI wrapper, each applied to one input *)

ParseInit ==
    /\ ProviderParked
    /\ gw = GwIdle
    /\ cmd = CmdIdle
    /\ act = ActIdle
    /\ form = FormIdle
    /\ \/ fn \in [op : {"status"}, done : {FALSE}, input : RawStatuses,
                  output : {<<>>}]
       \/ fn \in [op : {"reference"}, done : {FALSE}, input : References,
                  output : {<<>>}]
       \/ fn \in [op : {"size"}, done : {FALSE}, input : ByteCounts,
                  output : {<<>>}]

\* parseRawContainer normalizes raw.status
NormalizeStatus ==
    /\ fn.op = "status" /\ ~fn.done
    /\ fn' = [fn EXCEPT !.done = TRUE, !.output = normalizeStatus(fn.input)]
    /\ UNCHANGED <<providerVars, gw, cmd, act, form>>

\* parseRawImage decomposes raw.reference
ParseReference ==
    /\ fn.op = "reference" /\ ~fn.done
    /\ fn' = [fn EXCEPT !.done = TRUE, !.output = parseReference(fn.input)]
    /\ UNCHANGED <<providerVars, gw, cmd, act, form>>

\* parseRawImage formats descriptor.size
FormatSize ==
    /\ fn.op = "size" /\ ~fn.done
    /\ fn' = [fn EXCEPT !.done = TRUE, !.output = formatSize(fn.input)]
    /\ UNCHANGED <<providerVars, gw, cmd, act, form>>

ParseNext ==
    \/ NormalizeStatus
    \/ ParseReference
    \/ FormatSize

ParseSpec == ParseInit /\ [][ParseNext]_vars

----------------------------------------------------------------------------
(* Properties of the execution gateway (GatewaySpec) *)

Returned == gw.pc = "returned"

\* C13: execute raises for no outcome of the subprocess (clean exit,
\* non-zero exit, spawn error, timeout, output over the buffer ceiling,
\* stdout that is not JSON): whenever it has returned, it has returned an
\* envelope and no exception has left it.
C13_ExecuteNeverRaises ==
    Returned => ~gw.result.raised

C13_Witness ==
    /\ Returned
    /\ gw.proc.cause = "spawn"
    /\ ~gw.result.raised
    /\ ~gw.result.success

\* C14: when the subprocess fails, execute returns success=false, error =
\* the captured stderr if it is not empty and the process error's message
\* otherwise, exitCode = the process's exit code, or 1 when it is unknown;
\* exitCode is an integer and is not 0.
C14_ProcessFailureEnvelope ==
    (Returned /\ gw.proc.status = "failed") =>
        /\ ~gw.result.success
        /\ gw.result.error = (IF gw.proc.stderr # "" THEN gw.proc.stderr
                                                     ELSE gw.proc.message)
        /\ gw.result.exitCode = (IF gw.proc.cause = "nonzero"
                                 THEN gw.proc.code ELSE Num(1))
        /\ gw.result.exitCode.t = "number"
        /\ gw.result.exitCode.n # 0

\* The stdout of a clean exit that execute hands to JSON.parse
CleanJsonCall ==
    Returned /\ gw.proc.status = "exited" /\ gw.parseJson

\* C15, as claimed: after a clean exit with parseJson, every stdout that is
\* not valid JSON, the empty and the whitespace-only one included, gives
\* success=false with the JSON-parse error and exitCode 0, and success=true
\* comes only with the decoded JSON as data.
C15_Claimed_NonJsonAlwaysFails ==
    CleanJsonCall =>
        IF gw.proc.stdout.form \in {"blank", "garbage"}
        THEN /\ ~gw.result.success
             /\ gw.result.error = ParseError
             /\ gw.result.exitCode = Num(0)
        ELSE /\ gw.result.success
             /\ gw.result.decoded
             /\ gw.result.data = gw.proc.stdout

\* C15, amended: after a clean exit with parseJson, a stdout that is empty
\* or whitespace-only is not decoded and gives success=true with the raw
\* text as data; every other stdout that is not valid JSON gives
\* success=false with the JSON-parse error and exitCode 0; a stdout that is
\* valid JSON gives success=true with the decoded JSON as data.
C15_NonBlankNonJsonFails ==
    CleanJsonCall =>
        CASE gw.proc.stdout.form = "blank" ->
                /\ gw.result.success
                /\ ~gw.result.decoded
                /\ gw.result.data = gw.proc.stdout
                /\ gw.result.exitCode = Num(0)
          [] gw.proc.stdout.form = "garbage" ->
                /\ ~gw.result.success
                /\ gw.result.error = ParseError
                /\ gw.result.exitCode = Num(0)
          [] OTHER ->
                /\ gw.result.success
                /\ gw.result.decoded
                /\ gw.result.data = gw.proc.stdout
                /\ gw.result.exitCode = Num(0)

C15_Witness ==
    /\ CleanJsonCall
    /\ gw.proc.stdout.form = "blank"
    /\ gw.result.success
    /\ ~gw.result.decoded

\* C16: when the subprocess runs over the timeout or its output over the
\* buffer ceiling, execute returns success=false with a descriptive error
\* and an exit code that is an integer other than 0.
C16_TimeoutAndOverflowEnvelope ==
    (Returned /\ gw.proc.cause \in {"timeout", "maxBuffer"}) =>
        /\ ~gw.result.success
        /\ gw.result.hasError
        /\ gw.result.error # ""
        /\ gw.result.exitCode.t = "number"
        /\ gw.result.exitCode.n # 0

\* C17: in every envelope execute returns, error is present exactly when
\* success is false, and data is present whenever success is true.
C17_EnvelopeShape ==
    Returned =>
        /\ gw.result.hasError <=> ~gw.result.success
        /\ gw.result.success => gw.result.hasData

C17_Witness ==
    /\ Returned
    /\ gw.result.success
    /\ gw.result.hasData
    /\ ~gw.result.hasError
    /\ gw.parseJson
    /\ gw.proc.stdout.form = "array"

\* The lines of the output channel that carry a tag
Tagged(tag) == {i \in 1..Len(gw.log) : gw.log[i] = tag}

\* C30: the gateway performs no retries: a call of execute launches exactly
\* one subprocess, and a failed invocation is reported exactly once (one
\* error line in the output channel, one failure envelope to the caller).
C30_NoRetries ==
    Returned =>
        /\ gw.launched = 1
        /\ Cardinality(Tagged("[CMD]")) = 1
        /\ gw.proc.status = "failed" =>
              /\ Cardinality(Tagged("[ERROR]")) = 1
              /\ ~gw.result.raised
              /\ ~gw.result.success
              /\ gw.result.hasError

C30_Witness ==
    /\ Returned
    /\ gw.proc.status = "failed"
    /\ gw.proc.cause = "nonzero"
    /\ gw.launched = 1
    /\ gw.log = <<"[CMD]", "[ERROR]">>

----------------------------------------------------------------------------
(* Properties of the commands (CommandSpec) *)

\* C18: restart is stop, then start, with a short circuit: the start
\* subprocess is invoked only after the stop returned success=true; when
\* the stop fails no start is invoked and the handler reports the failure
\* of the stop.
C18_RestartShortCircuits ==
    cmd.name = "restart" =>
        /\ (\E i \in 1..Len(cmd.calls) : cmd.calls[i] = "start") =>
              /\ cmd.calls = <<"stop", "start">>
              /\ cmd.stopResult.success
        /\ (cmd.pc = "ended" /\ ~cmd.stopResult.success) =>
              /\ cmd.calls = <<"stop">>
              /\ cmd.result = cmd.stopResult
              /\ cmd.shown = [level |-> "error", text |-> cmd.stopResult.error]

C18_Witness ==
    /\ cmd.name = "restart"
    /\ cmd.pc = "ended"
    /\ ~cmd.stopResult.success
    /\ cmd.calls = <<"stop">>
    /\ cmd.shown.level = "error"

C20_DeleteWaitsForConfirmation ==
    [][/\ (cmd'.name = "delete" /\ cmd'.confirmAtRun
             /\ Len(cmd'.calls) > Len(cmd.calls)) =>
            (cmd.pc = "confirming" /\ cmd'.answer = "Delete")
       /\ (cmd.pc = "confirming" /\ cmd'.pc # "confirming"
             /\ cmd'.answer # "Delete") =>
            /\ cmd'.pc = "declined"
            /\ cmd'.calls = <<>>
            /\ UNCHANGED <<snapshot, pending>>]_vars

C20_Witness ==
    /\ cmd.name = "delete"
    /\ cmd.pc = "declined"
    /\ cmd.confirmAtRun
    /\ ~config.confirmBeforeDelete
    /\ cmd.calls = <<>>
    /\ Len(snapshot) > 0

\* The handler is awaiting the subprocess whose result it reports
AwaitingSubprocess == cmd.pc \in {"running", "deleting", "stopping", "starting"}

\* C37: for every mutating command (start, stop, restart, delete, detached
\* run, create, prune) the refresh of the provider is started only in the
\* step in which the command's subprocess completed with success=true; when
\* it completed with success=false the handler shows an error message that
\* carries the result's error text, and starts no refresh.
C37_RefreshOnlyAfterSuccess ==
    [][/\ Len(pending') > Len(pending) =>
            /\ AwaitingSubprocess
            /\ cmd'.pc = "ended"
            /\ cmd'.calls # <<>>
            /\ cmd'.result.success
            /\ cmd'.shown.level = "info"
       /\ (AwaitingSubprocess /\ cmd'.pc = "ended" /\ ~cmd'.result.success) =>
            /\ cmd'.shown = [level |-> "error", text |-> cmd'.result.error]
            /\ cmd'.result.error # ""
            /\ pending' = pending]_vars

C37_Witness ==
    /\ cmd.name = "prune"
    /\ cmd.pc = "ended"
    /\ cmd.calls = <<"prune">>
    /\ ~cmd.result.success
    /\ cmd.shown.level = "error"
    /\ pending = <<>>

----------------------------------------------------------------------------
(* Properties of the create commands (CreateSpec) *)

\* A name that starts with an alphanumeric character and holds only
\* alphanumerics, '_', '.', '-'
WellFormedName(name) ==
    /\ name # <<>>
    /\ Head(name) \in {"a", "7"}
    /\ \A i \in 1..Len(name) : name[i] \in {"a", "7", "_", ".", "-"}

\* C21: the create-volume and create-network subprocesses are invoked only
\* with a name that starts with an alphanumeric character and holds only
\* alphanumerics, '_', '.', '-'; while the name typed was rejected, and
\* when the name box was cancelled, no subprocess has been invoked.
C21_CreateOnlyWithValidName ==
    /\ \A i \in 1..Len(form.calls) : WellFormedName(form.calls[i].name)
    /\ form.pc = "naming" => form.calls = <<>>
    /\ (form.cancelled /\ form.name = <<>>) => form.calls = <<>>

C21_Witness ==
    /\ form.pc = "creating"
    /\ form.rejected
    /\ Len(form.calls) = 1
    /\ Len(form.calls[1].name) = MaxNameLen
    /\ \E i \in 1..MaxNameLen : form.calls[1].name[i] = "-"

----------------------------------------------------------------------------
(* Properties of the list parsing (Spec) *)

\* C25: a list response of N records yields N entities also when one
\* record is malformed (missing fields, a wrong type, not an object): the
\* list is neither emptied nor truncated and the refresh does not fail.
C25_MalformedRecordStillListed ==
    (last.op = "resume" /\ last.doc.form = "array" /\ last.outcome # "failed") =>
        /\ last.outcome = "ok"
        /\ last.settled = "fulfilled"
        /\ Len(snapshot) = Len(last.doc.items)

----------------------------------------------------------------------------
(* Properties of the parsers (ParseSpec) *)

\* The status the documentation gives a raw status word, whatever its case
DocumentedStatus(word) ==
    CASE word = <<"r", "u", "n", "n", "i", "n", "g">> -> "Running"
      [] word \in {<<"s", "t", "o", "p", "p", "e", "d">>,
                   <<"e", "x", "i", "t", "e", "d">>} -> "Stopped"
      [] word = <<"c", "r", "e", "a", "t", "e", "d">> -> "Created"
      [] word = <<"p", "a", "u", "s", "e", "d">> -> "Paused"
      [] OTHER -> "Unknown"

\* C22: status normalization is total and case-insensitive: it never
\* fails, it maps running, stopped or exited, created, paused in any case
\* to Running, Stopped, Created, Paused, and every other raw value (absent,
\* empty, not a string) to Unknown.
C22_StatusNormalizationTotal ==
    (fn.op = "status" /\ fn.done) =>
        /\ ~fn.output.threw
        /\ fn.output.status =
              (IF fn.input.t = "string"
               THEN DocumentedStatus(fn.input.text.chars) ELSE "Unknown")

\* The positions of a separator in a reference
Positions(t, c) == {i \in 1..Len(t) : t[i] = c}

\* The last ':' of the reference lies after its last '/'
TagFollows(t) ==
    /\ Positions(t, ":") # {}
    /\ \E i \in Positions(t, ":") : \A j \in Positions(t, "/") : j < i

\* The position of the last ':'
TagColon(t) ==
    CHOOSE i \in Positions(t, ":") : \A j \in Positions(t, ":") : j <= i

\* A repository without the leading docker.io/library/ or docker.io/
Displayed(r) ==
    IF Len(r) >= 4 /\ SubSeq(r, 1, 4) = <<"docker.io", "/", "library", "/">>
    THEN SubSeq(r, 5, Len(r))
    ELSE IF Len(r) >= 2 /\ SubSeq(r, 1, 2) = <<"docker.io", "/">>
         THEN SubSeq(r, 3, Len(r))
         ELSE r

\* C23: when the last ':' of a reference lies after its last '/', the text
\* before it is the repository and the text after it the tag; otherwise the
\* whole reference is the repository and the tag is 'latest'; a leading
\* 'docker.io/library/' or 'docker.io/' is then stripped from the
\* repository.  The four references of the documentation give
\* (nginx, latest), (nginx, 1.25), (myregistry.local:5000/app, v2),
\* (myimage, latest).
C23_ReferenceDecomposition ==
    (fn.op = "reference" /\ fn.done) =>
        LET t == fn.input IN
        /\ TagFollows(t) =>
              /\ fn.output.repository = Displayed(SubSeq(t, 1, TagColon(t) - 1))
              /\ fn.output.tag = SubSeq(t, TagColon(t) + 1, Len(t))
        /\ ~TagFollows(t) =>
              /\ fn.output.repository = Displayed(t)
              /\ fn.output.tag = <<"latest">>
        /\ t = <<"nginx", ":", "latest">> =>
              fn.output = [repository |-> <<"nginx">>, tag |-> <<"latest">>]
        /\ t = <<"docker.io", "/", "library", "/", "nginx", ":", "1.25">> =>
              fn.output = [repository |-> <<"nginx">>, tag |-> <<"1.25">>]
        /\ t = <<"myregistry.local", ":", "5000", "/", "app", ":", "v2">> =>
              fn.output =
                [repository |-> <<"myregistry.local", ":", "5000", "/", "app">>,
                 tag |-> <<"v2">>]
        /\ t = <<"myimage">> =>
              fn.output = [repository |-> <<"myimage">>, tag |-> <<"latest">>]

C23_Witness ==
    /\ fn.op = "reference"
    /\ fn.done
    /\ fn.input = <<"myregistry.local", ":", "5000", "/", "app", ":", "v2">>
    /\ fn.output.tag = <<"v2">>

\* The place of a unit among B, KiB, MiB, GiB, TiB, from 0; -1 for none
UnitExponent(unit) ==
    IF \E i \in 1..Len(Units) : Units[i] = unit
    THEN (CHOOSE i \in 1..Len(Units) : Units[i] = unit) - 1
    ELSE -1

\* C24: for every byte count b >= 0 formatSize returns a numeral with one
\* decimal place and a unit among B, KiB, MiB, GiB, TiB such that numeral
\* times unit is b within the rounding to one decimal place (half a tenth
\* of the unit); formatSize(0) is '0 B'.
C24_FormatSizeRecovers ==
    (fn.op = "size" /\ fn.done) =>
        LET u == UnitExponent(fn.output.unit)
            d == u - fn.input.e
        IN
        IF fn.input.m = 0
        THEN fn.output = [plain |-> TRUE, tenths |-> 0, unit |-> "B"]
        ELSE /\ ~fn.output.plain
             /\ u >= 0
             /\ d \in {0, 1}
             /\ LET scale == IF d = 1 THEN Base ELSE 1
                    diff == fn.output.tenths * scale - 10 * fn.input.m
                IN  2 * (IF diff < 0 THEN -diff ELSE diff) <= scale

----------------------------------------------------------------------------
(* Properties of the argument builders (BuilderSpec) *)

\* The flag the documentation of the engine gives a request field
FlagOf(f) ==
    CASE f = "name" -> "--name"
      [] f = "detach" -> "--detach"
      [] f = "remove" -> "--rm"
      [] f = "interactive" -> "--interactive"
      [] f = "tty" -> "--tty"
      [] f = "env" -> "--env"
      [] f = "envFile" -> "--env-file"
      [] f = "ports" -> "--publish"
      [] f = "volumes" -> "--volume"
      [] f = "mounts" -> "--mount"
      [] f = "network" -> "--network"
      [] f = "workdir" -> "--workdir"
      [] f = "user" -> "--user"
      [] f = "cpus" -> "--cpus"
      [] f = "memory" -> "--memory"
      [] f = "platform" -> "--platform"
      [] f = "entrypoint" -> "--entrypoint"
      [] f = "labels" -> "--label"
      [] f = "dns" -> "--dns"
      [] f = "dnsSearch" -> "--dns-search"
      [] f = "rosetta" -> "--rosetta"
      [] f = "ssh" -> "--ssh"
      [] f = "dockerfile" -> "--file"
      [] f = "tag" -> "--tag"
      [] f = "tags" -> "--tag"
      [] f = "buildArgs" -> "--build-arg"
      [] f = "target" -> "--target"
      [] f = "noCache" -> "--no-cache"
      [] f = "pull" -> "--pull"
      [] OTHER -> "--none"

\* A builder has produced an argument vector
Built == fn.op \in {"run", "build"} /\ fn.done

\* The tokens of the request that are no flags, cmd among them
RequiredTail ==
    IF fn.op = "run"
    THEN <<fn.input.image>>
         \o (IF "cmd" \in fn.input.present THEN fn.input.cmd ELSE <<>>)
    ELSE <<fn.input.context>>

\* C26: in every argument vector the builder produces, a flag (with its
\* value) appears only if its optional field is present in the request, and
\* no token is empty; a request with only its required field yields exactly
\* the verb and that field: ['run', image].
C26_FlagsOnlyForPresentFields ==
    Built =>
        /\ \A f \in RunFields \cup BuildFields :
              (\E i \in 1..Len(fn.output) : fn.output[i] = FlagOf(f)) =>
                  \E g \in fn.input.present : FlagOf(g) = FlagOf(f)
        /\ \A i \in 1..Len(fn.output) : fn.output[i] # ""
        /\ fn.input.present = {} =>
              fn.output = <<fn.op>> \o RequiredTail
        /\ (fn.op = "run" /\ fn.input.present = {}) =>
              fn.output = <<"run", fn.input.image>>

C26_Witness ==
    /\ fn.op = "run"
    /\ fn.done
    /\ fn.input.present = {}
    /\ fn.output = <<"run", "nginx">>

\* The tokens that follow the occurrences of a flag, in order
Following(out, flag) ==
    LET at == SelectSeq([i \in 1..Len(out) |-> i],
                        LAMBDA i : out[i] = flag /\ i < Len(out))
    IN  [k \in 1..Len(at) |-> out[at[k] + 1]]

\* The number of occurrences of a flag
Occurrences(out, flag) == Cardinality({i \in 1..Len(out) : out[i] = flag})

\* The documented tokens of a port mapping: [host-ip:]host:container, and
\* /protocol, which the default protocol tcp may leave out
DocumentedPorts(port) ==
    LET core == (IF port.hostIp # "" THEN port.hostIp \o ":" ELSE "")
                \o ToString(port.host) \o ":" \o ToString(port.container)
    IN  CASE port.protocol = "" -> {core}
          [] port.protocol = "tcp" -> {core, core \o "/tcp"}
          [] OTHER -> {core \o "/" \o port.protocol}

DocumentedVolume(vol) ==
    IF vol.readonly
    THEN vol.source \o ":" \o vol.target \o ":ro"
    ELSE vol.source \o ":" \o vol.target

DocumentedMount(mount) ==
    IF mount.readonly
    THEN "type=" \o mount.type \o ",source=" \o mount.source
         \o ",target=" \o mount.target \o ",readonly"
    ELSE "type=" \o mount.type \o ",source=" \o mount.source
         \o ",target=" \o mount.target

\* The entries of a list field of the request, none when it is absent
EntriesOf(f) == IF f \in fn.input.present THEN fn.input[f] ELSE <<>>

\* C27: each entry of ports, volumes and mounts becomes exactly one flag
\* followed by one token in the documented field order; the documented
\* request (one port 8080 -> 80, one read-only volume /data -> /app) holds
\* exactly one '--publish 8080:80' and one '--volume /data:/app:ro'.
C27_OneTokenPerCompoundEntry ==
    (fn.op = "run" /\ fn.done) =>
        LET published == Following(fn.output, "--publish")
            volumes == Following(fn.output, "--volume")
            mounts == Following(fn.output, "--mount")
        IN
        /\ Occurrences(fn.output, "--publish") = Len(EntriesOf("ports"))
        /\ Len(published) = Len(EntriesOf("ports"))
        /\ \A k \in 1..Len(published) :
              published[k] \in DocumentedPorts(fn.input.ports[k])
        /\ Occurrences(fn.output, "--volume") = Len(EntriesOf("volumes"))
        /\ Len(volumes) = Len(EntriesOf("volumes"))
        /\ \A k \in 1..Len(volumes) :
              volumes[k] = DocumentedVolume(fn.input.volumes[k])
        /\ Occurrences(fn.output, "--mount") = Len(EntriesOf("mounts"))
        /\ Len(mounts) = Len(EntriesOf("mounts"))
        /\ \A k \in 1..Len(mounts) :
              mounts[k] = DocumentedMount(fn.input.mounts[k])
        /\ fn.input = RunDocumented =>
              fn.output = <<"run", "--publish", "8080:80",
                            "--volume", "/data:/app:ro", "nginx">>

C27_Witness ==
    /\ fn.op = "run"
    /\ fn.done
    /\ fn.input = RunDocumented
    /\ Following(fn.output, "--publish") = <<"8080:80">>
    /\ Following(fn.output, "--volume") = <<"/data:/app:ro">>

\* key=value of a map entry
Pair(e) == e.key.text \o "=" \o e.value

\* The place of an entry's pair among the tokens, 0 when it is not there
PlaceOf(tokens, e) ==
    IF \E k \in 1..Len(tokens) : tokens[k] = Pair(e)
    THEN CHOOSE k \in 1..Len(tokens) : tokens[k] = Pair(e)
    ELSE 0

\* Every entry of the map has one pair among the tokens and there is no
\* other token
OnePairPerEntry(tokens, m) ==
    /\ Len(tokens) = Len(m)
    /\ \A i \in 1..Len(m) :
          Cardinality({k \in 1..Len(tokens) : tokens[k] = Pair(m[i])}) = 1

\* The map fields a builder reads
MapFieldsOf(op) == IF op = "run" THEN {"env", "labels"}
                   ELSE {"buildArgs", "labels"}

\* C28 as stated: a map-typed field expands into one '--flag key=value'
\* pair per entry, in the map's insertion order, none dropped or duplicated.
C28_Claimed_InsertionOrder ==
    Built =>
        \A f \in MapFieldsOf(fn.op) :
            LET tokens == Following(fn.output, FlagOf(f))
                m == EntriesOf(f)
            IN  /\ Len(tokens) = Len(m)
                /\ \A k \in 1..Len(m) : tokens[k] = Pair(m[k])

\* C28: a map-typed field expands into one '--flag key=value' pair per
\* entry, none dropped or duplicated, in the order Object.entries walks the
\* map: the keys that are array indices first, in ascending numeric order,
\* then the other keys in insertion order.
C28_PairsInPropertyOrder ==
    Built =>
        \A f \in MapFieldsOf(fn.op) :
            LET tokens == Following(fn.output, FlagOf(f))
                m == EntriesOf(f)
            IN  /\ Occurrences(fn.output, FlagOf(f)) = Len(m)
                /\ OnePairPerEntry(tokens, m)
                /\ \A i, j \in 1..Len(m) :
                      LET a == m[i]
                          b == m[j]
                          before == PlaceOf(tokens, a) < PlaceOf(tokens, b)
                      IN  /\ (a.key.index >= 0 /\ b.key.index >= 0
                              /\ a.key.index < b.key.index) => before
                          /\ (a.key.index >= 0 /\ b.key.index < 0) => before
                          /\ (a.key.index < 0 /\ b.key.index < 0 /\ i < j)
                                => before

C28_Witness ==
    /\ fn.op = "run"
    /\ fn.done
    /\ fn.input.present = {"env"}
    /\ Len(fn.input.env) = MaxEntries
    /\ fn.input.env[1].key.text = "B"
    /\ fn.input.env[MaxEntries].key.text = "1"
    /\ Following(fn.output, "--env")[1] = "1=v1"

\* C29: every optional field that is present (and set: a text that is not
\* empty, a switch that is true) has its flag in the argument vector; a
\* build request with pull = true holds the pull flag.
C29_PresentFieldHasItsFlag ==
    Built =>
        \A f \in fn.input.present :
            ((f \in StringFields /\ fn.input[f] # "")
             \/ (f \in BooleanFields /\ fn.input[f] = TRUE)) =>
                \E i \in 1..Len(fn.output) : fn.output[i] = FlagOf(f)

\* The flags the builders push
KnownFlags ==
    {FlagOf(f) : f \in RunFields \cup BuildFields}
    \cup {"--time", "--signal", "--force", "--driver", "--subnet",
          "--gateway", "--internal"}

\* The positional operand of the request: the image, the context, the id
\* or the name
Operand ==
    CASE fn.op = "run" -> fn.input.image
      [] fn.op = "build" -> fn.input.context
      [] fn.op \in {"stop", "kill", "delete"} -> fn.input.id
      [] fn.op \in {"createVolume", "createNetwork"} -> fn.input.name

\* The tokens that may follow the operand: the cmd of a run
Trailing ==
    IF fn.op = "run" /\ "cmd" \in fn.input.present THEN fn.input.cmd ELSE <<>>

\* C38: in every argument vector all flags precede the positional operand:
\* for run the image comes after every flag and value and is followed only
\* by the cmd tokens, in order; for stop, kill, delete, create and build the
\* id, name or context is the last token.
C38_FlagsPrecedeOperand ==
    (fn.op # "none" /\ fn.done) =>
        LET out == fn.output
            at  == Len(out) - Len(Trailing)
        IN  /\ at >= 2
            /\ out[at] = Operand
            /\ SubSeq(out, at + 1, Len(out)) = Trailing
            /\ \A i \in 1..Len(out) : out[i] \in KnownFlags => i < at
            /\ fn.op # "run" => out[Len(out)] = Operand

C38_Witness ==
    /\ fn.op = "run"
    /\ fn.done
    /\ fn.input.present = {"cmd", "name"}
    /\ Len(fn.input.cmd) = MaxEntries
    /\ fn.input.name # ""
    /\ fn.output = <<"run", "--name", fn.input.name, fn.input.image>>
                       \o fn.input.cmd

----------------------------------------------------------------------------
(* Properties of the configuration (ConfigSpec) *)

\* C31: the configuration is replaced wholesale on a settings change and
\* read by value: a change that arrives while an invocation is in flight
\* does not alter that invocation, which runs the binary configured when it
\* started, and every invocation started after the change uses the new
\* binary path.
C31_ConfigReadByValue ==
    \A i \in 1..Len(calls) :
        /\ calls[i].cliPath = calls[i].wanted
        /\ calls[i].state = "settled" => calls[i].ran = calls[i].wanted

\* C32: extension disposal disposes the CLI wrapper along with the
\* provider, which releases the configuration-change subscription: once
\* disposed, a settings change no longer replaces the configuration held.
C32_SubscriptionReleasedOnDispose ==
    [][/\ disposed' => (~configListening' /\ emitterDisposed'
                        /\ liveTimers' = {})
       /\ disposed => config' = config]_vars

C32_Witness ==
    /\ disposed
    /\ ~configListening
    /\ last.op = "configChange"
    /\ settings.containerPath # config.containerPath

\* C34: no timer is leaked: a provider has at most one live interval timer
\* at any time, the live timer is the one its handle names, and it has none
\* once stopAutoRefresh has cleared the handle or the provider is disposed.
C34_NoTimerLeaked ==
    /\ Cardinality(liveTimers) <= 1
    /\ \A t \in liveTimers : t.id = refreshTimer
    /\ refreshTimer = 0 => liveTimers = {}
    /\ disposed => liveTimers = {}

C34_Witness ==
    /\ disposed
    /\ last.op = "dispose"
    /\ intervalAtConstruction > 0
    /\ refreshTimer = 0
    /\ liveTimers = {}

\* C35: after a provider is disposed no change notification reaches an
\* observer, also when a refresh that was in flight at the disposal
\* completes afterwards and calls fire().
C35_NoNotificationAfterDispose ==
    disposed => ~last.delivered

C35_Witness ==
    /\ disposed
    /\ last.op = "resume"
    /\ last.outcome = "ok"
    /\ last.fired
    /\ ~last.delivered

\* The snapshot holds the records of the listing, each once, in some order
\* (getChildren sorts the field in place)
HoldsListing(snap, listing) ==
    /\ Len(snap) = Len(listing)
    /\ Range(snap) = Range(listing)

\* C36: when refreshes of one kind overlap, each completion overwrites the
\* snapshot and fires one notification, in the order of completion whatever
\* the order of start: after a completion the snapshot is the listing that
\* completion's invocation returned (empty for a failed invocation).
C36_LastCompletionWins ==
    last.op = "resume" =>
        /\ last.fired
        /\ HoldsListing(snapshot, IF last.outcome = "failed"
                                  THEN <<>> ELSE Listed(last.doc))

----------------------------------------------------------------------------
(* Properties of the termination of invocations (LiveSpec) *)

\* C33: every gateway invocation eventually completes with a result, a
\* hung subprocess being ended by the execution timeout; so every refresh
\* that was started eventually finishes and none stays pending forever.
C33_EveryInvocationCompletes ==
    \A i \in 1..MaxCalls :
        (i <= Len(calls) /\ calls[i].state = "running")
            ~> (i <= Len(calls) /\ calls[i].state = "settled")

C33_Witness ==
    \E i \in 1..Len(calls) :
        /\ calls[i].hung
        /\ calls[i].state = "settled"
        /\ calls[i].cause = "timeout"

====
